---- MODULE Spec2Model ----
(***************************************************************************)
(* Centralized event manager of LibAFL (libafl/src/events/centralized.rs): *)
(* secondaries forward NewTestcase / UpdateExecStats events over the       *)
(* centralized LLMP channel, the centralized broker filters them, and the  *)
(* main evaluator re-evaluates the forwarded test cases and publishes the  *)
(* accepted ones through its inner (main-broker-facing) manager.           *)
(***************************************************************************)
EXTENDS Integers, Sequences, FiniteSets, TLC

---------------------------------------------------------------------------
(* Bounds of the model *)

\* Messages that may sit in the centralized channel (all pages together).
MaxInFlight == 1

\* Scaled compression threshold of the GzipCompressor (bytes).
CompressThreshold == 12

\* Messages readable at once when the main evaluator's process starts.
MaxQueue == 2

\* Longest stage tuple.
MaxStages == 3

\* Largest max_retries a stage passes to its RetryRestartHelper.
MaxRetries == 2

\* Largest value of state.executions.
MaxExecs == 3

---------------------------------------------------------------------------
(* Program constants *)

LLMP_TAG_TO_MAIN == 54867027    \* Tag(0x3453453)

\* The max_retries a ClosureStage passes to its RetryRestartHelper.
ClosureMaxRetries == 3

LLMP_FLAG_INITIALIZED == {"INITIALIZED"}
LLMP_FLAG_COMPRESSED == {"COMPRESSED"}

---------------------------------------------------------------------------
(* Participants *)

Secondaries == {"S1", "S2"}
MainNode == "M"
Clients == Secondaries \cup {MainNode}

\* The is_main field of each CentralizedEventManager.
is_main(c) == c = MainNode

\* Client ids handed out by a broker.
ClientIds == 1 .. 3

\* Option<T>: None is the empty sequence, Some(x) the sequence <<x>>.
None == << >>
Some(x) == << x >>

\* EventConfig::FromName hashes; configuration() of the inner manager.
EventConfigs == {1, 2}
configuration(c) == IF c = "S2" THEN 2 ELSE 1
match_with(a, b) == a = b

VARIABLES
    mgr_id,       \* inner.mgr_id() of each manager (id at the main broker)
    client_id,    \* client.sender().id() of each manager (centralized broker)
    toBroker,     \* per client: messages sent, not yet seen by the broker
    toClients,    \* broadcast page of the broker, as yet unread by the main
    broker,       \* "running" or "stopped" (hook error ended the loop)
    status,       \* per client: "running" or "panicked"
    last,         \* what the last operation was given and what it did
    tuple_len,          \* number of stages of the fuzzer's stage tuple
    current_stage_idx,  \* HasCurrentStage: the index the state holds
    traversal,          \* the last perform_all: its calls and its result
    retry_meta,         \* named metadata of the stage: its RetryRestartHelper
    current_corpus_id,  \* HasCurrentCorpusId: the corpus id the state holds
    retry_last,         \* the last call on the helper and what it returned
    retry_streak,       \* the calls since the progress was last cleared
    executions,         \* HasExecutions: executions done so far
    exec_meta,          \* the state's ExecutionCountRestartHelperMetadata
    exec_cache,         \* per helper: its cached started_at_execs
    exec_last,          \* the last call on a helper and what it returned
    exec_hist           \* per helper: executions at its first entry

cvars == << mgr_id, client_id, toBroker, toClients, broker, status, last >>

svars == << tuple_len, current_stage_idx, traversal >>

rvars == << retry_meta, current_corpus_id, retry_last, retry_streak >>

evars == << executions, exec_meta, exec_cache, exec_last, exec_hist >>

vars == << mgr_id, client_id, toBroker, toClients, broker, status, last,
           tuple_len, current_stage_idx, traversal,
           retry_meta, current_corpus_id, retry_last, retry_streak,
           executions, exec_meta, exec_cache, exec_last, exec_hist >>

---------------------------------------------------------------------------
(* Events and their wire encoding *)

NewTestcase(input, cfg, ek, cs, obs, t, ex, fwd) ==
    [name |-> "NewTestcase", input |-> input, client_config |-> cfg,
     exit_kind |-> ek, corpus_size |-> cs, observers_buf |-> obs,
     time |-> t, executions |-> ex, forward_id |-> fwd]

UpdateExecStats(t, ex) ==
    [name |-> "UpdateExecStats", time |-> t, executions |-> ex]

Objective(n) == [name |-> "Objective", objective_size |-> n]

Log(sev, m) == [name |-> "Log", severity_level |-> sev, message |-> m]

CustomBuf(b, t) == [name |-> "CustomBuf", buf |-> b, tag |-> t]

EncBytes(b) == << Len(b) >> \o b

EncOptBytes(o) == IF o = None THEN << 0 >> ELSE << 1 >> \o EncBytes(o[1])

EncOptId(o) == IF o = None THEN << 0 >> ELSE << 1, o[1] >>

\* postcard::to_allocvec(event): variant index, then the fields in order.
to_allocvec(e) ==
    CASE e.name = "NewTestcase" ->
           << 0 >> \o EncBytes(e.input)
               \o << e.client_config, e.exit_kind, e.corpus_size >>
               \o EncOptBytes(e.observers_buf)
               \o << e.time, e.executions >> \o EncOptId(e.forward_id)
      [] e.name = "UpdateExecStats" -> << 1, e.time, e.executions >>
      [] e.name = "Objective" -> << 2, e.objective_size >>
      [] e.name = "Log" -> << 3, e.severity_level >> \o EncBytes(e.message)
      [] e.name = "CustomBuf" -> << 4 >> \o EncBytes(e.buf) \o EncBytes(e.tag)

At(b, i) == IF i >= 1 /\ i <= Len(b) THEN b[i] ELSE -1

DecodeError == [ok |-> FALSE, val |-> None]
Decoded(v) == [ok |-> TRUE, val |-> v]

\* A length-prefixed byte string starting at position p.
DecBytes(b, p) ==
    LET n == At(b, p)
    IN  IF n >= 0 /\ p + n <= Len(b)
        THEN [ok |-> TRUE, val |-> SubSeq(b, p + 1, p + n), next |-> p + n + 1]
        ELSE [ok |-> FALSE, val |-> << >>, next |-> p]

DecNewTestcase(b) ==
    LET input == DecBytes(b, 2)
        p     == input.next
        oTag  == At(b, p + 3)
        obs   == DecBytes(b, p + 4)
        q     == IF oTag = 1 THEN obs.next ELSE p + 4
        fTag  == At(b, q + 2)
    IN  IF /\ input.ok
           /\ At(b, p) >= 0 /\ At(b, p + 1) >= 0 /\ At(b, p + 2) >= 0
           /\ oTag \in {0, 1} /\ (oTag = 1 => obs.ok)
           /\ At(b, q) >= 0 /\ At(b, q + 1) >= 0
           /\ fTag \in {0, 1} /\ (fTag = 1 => At(b, q + 3) >= 0)
        THEN Decoded(NewTestcase(input.val, b[p], b[p + 1], b[p + 2],
                                 IF oTag = 1 THEN Some(obs.val) ELSE None,
                                 b[q], b[q + 1],
                                 IF fTag = 1 THEN Some(b[q + 3]) ELSE None))
        ELSE DecodeError

DecLog(b) ==
    LET m == DecBytes(b, 3)
    IN  IF At(b, 2) >= 0 /\ m.ok THEN Decoded(Log(b[2], m.val)) ELSE DecodeError

DecCustomBuf(b) ==
    LET x == DecBytes(b, 2)
        t == DecBytes(b, x.next)
    IN  IF x.ok /\ t.ok THEN Decoded(CustomBuf(x.val, t.val)) ELSE DecodeError

\* postcard::from_bytes::<Event<I>>(bytes)
from_bytes(b) ==
    CASE At(b, 1) = 0 -> DecNewTestcase(b)
      [] At(b, 1) = 1 ->
           IF At(b, 2) >= 0 /\ At(b, 3) >= 0
           THEN Decoded(UpdateExecStats(b[2], b[3])) ELSE DecodeError
      [] At(b, 1) = 2 ->
           IF At(b, 2) >= 0 THEN Decoded(Objective(b[2])) ELSE DecodeError
      [] At(b, 1) = 3 -> DecLog(b)
      [] At(b, 1) = 4 -> DecCustomBuf(b)
      [] OTHER -> DecodeError

\* postcard::from_bytes::<E::Observers>(buf): a length-prefixed vector.
observers_from_bytes(b) ==
    LET o == DecBytes(b, 1)
    IN  IF o.ok /\ o.next = Len(b) + 1 THEN Decoded(o.val) ELSE DecodeError

Reverse(s) == [i \in 1 .. Len(s) |-> s[Len(s) + 1 - i]]

\* The codec: a framed, invertible transformation that is not the identity.
compress(b) == << 31, Len(b) >> \o Reverse(b)

decompress(c) ==
    IF Len(c) >= 2 /\ c[1] = 31 /\ c[2] = Len(c) - 2
    THEN Decoded(Reverse(SubSeq(c, 3, Len(c))))
    ELSE DecodeError

\* GzipCompressor::maybe_compress: Some(compressed) at or above the threshold.
maybe_compress(b) ==
    IF Len(b) >= CompressThreshold THEN Some(compress(b)) ELSE None

---------------------------------------------------------------------------
(* The transport frame *)

Msg(id, tag, flags, payload) ==
    [client_id |-> id, tag |-> tag, flags |-> flags, payload |-> payload]

\* LlmpClient::send_buf sends with the default flags.
send_buf(c, tag, buf) == Msg(client_id[c], tag, LLMP_FLAG_INITIALIZED, buf)

send_buf_with_flags(c, tag, flags, buf) == Msg(client_id[c], tag, flags, buf)

InFlight ==
    Len(toClients) + Len(toBroker["S1"]) + Len(toBroker["S2"])
        + Len(toBroker[MainNode])

---------------------------------------------------------------------------
(* The centralized broker *)

\* Mutant: the broker forwards heartbeats as well.
handle_in_broker_fwd_stats(sender, event) ==
    IF event.name \in {"NewTestcase", "UpdateExecStats"}
    THEN "Forward" ELSE "Handled"

\* Mutant: the broker keeps the test cases of a non-matching config.
handle_in_broker_drop_foreign(sender, event) ==
    IF event.name = "NewTestcase" /\ event.client_config = 1
    THEN "Forward" ELSE "Handled"

\* Mutant: the broker forwards every event it can decode.
handle_in_broker_fwd_all(sender, event) == "Forward"

\* CentralizedLlmpEventBroker::handle_in_broker
handle_in_broker(sender, event) ==
    IF event.name = "NewTestcase" THEN "Forward" ELSE "Handled"

\* Mutant: the hook inflates and decodes every message, whatever its tag.
broker_loop_decode_all(m) ==
    LET event_bytes == IF LLMP_FLAG_COMPRESSED \subseteq m.flags
                       THEN decompress(m.payload)
                       ELSE Decoded(m.payload)
        event == from_bytes(event_bytes.val)
    IN  IF ~event_bytes.ok \/ ~event.ok
        THEN "Err"
        ELSE IF m.tag # LLMP_TAG_TO_MAIN \/ event.val.name = "NewTestcase"
             THEN "ForwardToClients"
             ELSE "Handled"

\* The message hook that broker_loop hands to the LLMP broker.
broker_loop(m) ==
    IF m.tag = LLMP_TAG_TO_MAIN
    THEN LET event_bytes == IF LLMP_FLAG_COMPRESSED \subseteq m.flags
                            THEN decompress(m.payload)
                            ELSE Decoded(m.payload)
             event == from_bytes(event_bytes.val)
         IN  IF ~event_bytes.ok \/ ~event.ok
             THEN "Err"
             ELSE IF handle_in_broker(m.client_id, event.val) = "Forward"
                  THEN "ForwardToClients"
                  ELSE "Handled"
    ELSE "ForwardToClients"

---------------------------------------------------------------------------
(* The centralized event manager *)

\* Mutant: a compressed payload is sent without the COMPRESSED flag.
forward_to_main_unflagged(c, event, ok) ==
    LET serialized == to_allocvec(event)
        comp_buf   == maybe_compress(serialized)
    IN  IF ~ok
        THEN [ok |-> FALSE, msgs |-> << >>]
        ELSE IF comp_buf # None
             THEN [ok |-> TRUE,
                   msgs |-> << send_buf(c, LLMP_TAG_TO_MAIN, comp_buf[1]) >>]
             ELSE [ok |-> TRUE,
                   msgs |-> << send_buf(c, LLMP_TAG_TO_MAIN, serialized) >>]

\* Mutant: the message is sent under another tag.
forward_to_main_untagged(c, event, ok) ==
    LET serialized == to_allocvec(event)
        flags      == LLMP_FLAG_INITIALIZED
        comp_buf   == maybe_compress(serialized)
    IN  IF ~ok
        THEN [ok |-> FALSE, msgs |-> << >>]
        ELSE IF comp_buf # None
             THEN [ok |-> TRUE,
                   msgs |-> << send_buf_with_flags(c, LLMP_TAG_TO_MAIN + 1,
                                   flags \cup LLMP_FLAG_COMPRESSED,
                                   comp_buf[1]) >>]
             ELSE [ok |-> TRUE,
                   msgs |-> << send_buf(c, LLMP_TAG_TO_MAIN + 1, serialized) >>]

\* forward_to_main (llmp_compression): the messages it puts on the channel;
\* ok = FALSE is a serialization or send error.
forward_to_main(c, event, ok) ==
    LET serialized == to_allocvec(event)
        flags      == LLMP_FLAG_INITIALIZED
        comp_buf   == maybe_compress(serialized)
    IN  IF ~ok
        THEN [ok |-> FALSE, msgs |-> << >>]
        ELSE IF comp_buf # None
             THEN [ok |-> TRUE,
                   msgs |-> << send_buf_with_flags(c, LLMP_TAG_TO_MAIN,
                                   flags \cup LLMP_FLAG_COMPRESSED,
                                   comp_buf[1]) >>]
             ELSE [ok |-> TRUE,
                   msgs |-> << send_buf(c, LLMP_TAG_TO_MAIN, serialized) >>]

InnerResult(innerOk) == IF innerOk THEN "Ok" ELSE "Err"

\* Mutant: no early return, a forwarded test case also goes to inner.fire.
fire_no_early_return(c, e, fwdOk, innerOk) ==
    LET is_tc == ~is_main(c) /\ e.name = "NewTestcase"
        event == IF is_tc THEN [e EXCEPT !.forward_id = Some(mgr_id[c])] ELSE e
        should_be_forwarded ==
            ~is_main(c) /\ e.name \in {"NewTestcase", "UpdateExecStats"}
        fwd == forward_to_main(c, event, fwdOk)
    IN  IF should_be_forwarded /\ ~fwd.ok
        THEN [sent |-> << >>, inner |-> << >>, result |-> "Err"]
        ELSE [sent |-> IF should_be_forwarded THEN fwd.msgs ELSE << >>,
              inner |-> << event >>,
              result |-> InnerResult(innerOk)]

\* Mutant: forward_id is write-once, a previous Some value is kept.
fire_keep_forward_id(c, e, fwdOk, innerOk) ==
    LET is_tc == ~is_main(c) /\ e.name = "NewTestcase"
        event == IF is_tc /\ e.forward_id = None
                 THEN [e EXCEPT !.forward_id = Some(mgr_id[c])]
                 ELSE e
        should_be_forwarded ==
            ~is_main(c) /\ e.name \in {"NewTestcase", "UpdateExecStats"}
        fwd == forward_to_main(c, event, fwdOk)
    IN  IF should_be_forwarded /\ ~fwd.ok
        THEN [sent |-> << >>, inner |-> << >>, result |-> "Err"]
        ELSE IF should_be_forwarded /\ is_tc
             THEN [sent |-> fwd.msgs, inner |-> << >>, result |-> "Ok"]
             ELSE [sent |-> IF should_be_forwarded THEN fwd.msgs ELSE << >>,
                   inner |-> << event >>,
                   result |-> InnerResult(innerOk)]

\* Mutant: forward_id is set to the id of the centralized transport client.
fire_transport_id(c, e, fwdOk, innerOk) ==
    LET is_tc == ~is_main(c) /\ e.name = "NewTestcase"
        event == IF is_tc
                 THEN [e EXCEPT !.forward_id = Some(client_id[c])]
                 ELSE e
        should_be_forwarded ==
            ~is_main(c) /\ e.name \in {"NewTestcase", "UpdateExecStats"}
        fwd == forward_to_main(c, event, fwdOk)
    IN  IF should_be_forwarded /\ ~fwd.ok
        THEN [sent |-> << >>, inner |-> << >>, result |-> "Err"]
        ELSE IF should_be_forwarded /\ is_tc
             THEN [sent |-> fwd.msgs, inner |-> << >>, result |-> "Ok"]
             ELSE [sent |-> IF should_be_forwarded THEN fwd.msgs ELSE << >>,
                   inner |-> << event >>,
                   result |-> InnerResult(innerOk)]

\* Mutant: every forwarded event returns early, heartbeats never reach inner.
fire_return_after_forward(c, e, fwdOk, innerOk) ==
    LET is_tc == ~is_main(c) /\ e.name = "NewTestcase"
        event == IF is_tc THEN [e EXCEPT !.forward_id = Some(mgr_id[c])] ELSE e
        should_be_forwarded ==
            ~is_main(c) /\ e.name \in {"NewTestcase", "UpdateExecStats"}
        fwd == forward_to_main(c, event, fwdOk)
    IN  IF should_be_forwarded
        THEN IF fwd.ok
             THEN [sent |-> fwd.msgs, inner |-> << >>, result |-> "Ok"]
             ELSE [sent |-> << >>, inner |-> << >>, result |-> "Err"]
        ELSE [sent |-> << >>, inner |-> << event >>,
              result |-> InnerResult(innerOk)]

\* Mutant: a secondary forwards every event to the main.
fire_forward_all(c, e, fwdOk, innerOk) ==
    LET is_tc == ~is_main(c) /\ e.name = "NewTestcase"
        event == IF is_tc THEN [e EXCEPT !.forward_id = Some(mgr_id[c])] ELSE e
        should_be_forwarded == ~is_main(c)
        fwd == forward_to_main(c, event, fwdOk)
    IN  IF should_be_forwarded /\ ~fwd.ok
        THEN [sent |-> << >>, inner |-> << >>, result |-> "Err"]
        ELSE IF should_be_forwarded /\ is_tc
             THEN [sent |-> fwd.msgs, inner |-> << >>, result |-> "Ok"]
             ELSE [sent |-> IF should_be_forwarded THEN fwd.msgs ELSE << >>,
                   inner |-> << event >>,
                   result |-> InnerResult(innerOk)]

\* Mutant: the main evaluator forwards like a secondary.
fire_main_forwards(c, e, fwdOk, innerOk) ==
    LET is_tc == e.name = "NewTestcase"
        event == IF is_tc THEN [e EXCEPT !.forward_id = Some(mgr_id[c])] ELSE e
        should_be_forwarded == e.name \in {"NewTestcase", "UpdateExecStats"}
        fwd == forward_to_main(c, event, fwdOk)
    IN  IF should_be_forwarded /\ ~fwd.ok
        THEN [sent |-> << >>, inner |-> << >>, result |-> "Err"]
        ELSE IF should_be_forwarded /\ is_tc
             THEN [sent |-> fwd.msgs, inner |-> << >>, result |-> "Ok"]
             ELSE [sent |-> IF should_be_forwarded THEN fwd.msgs ELSE << >>,
                   inner |-> << event >>,
                   result |-> InnerResult(innerOk)]

\* EventFirer::fire: the messages sent on the centralized channel, the events
\* handed to inner.fire and the result.
fire(c, e, fwdOk, innerOk) ==
    LET is_tc == ~is_main(c) /\ e.name = "NewTestcase"
        \* mgr_id is a u32 ClientId widened to usize: the cast back is exact
        event == IF is_tc
                 THEN [e EXCEPT !.forward_id = Some(mgr_id[c])]
                 ELSE e
        should_be_forwarded ==
            ~is_main(c) /\ e.name \in {"NewTestcase", "UpdateExecStats"}
        fwd == forward_to_main(c, event, fwdOk)
    IN  IF should_be_forwarded /\ ~fwd.ok
        THEN [sent |-> << >>, inner |-> << >>, result |-> "Err"]
        ELSE IF should_be_forwarded /\ is_tc
             THEN [sent |-> fwd.msgs, inner |-> << >>, result |-> "Ok"]
             ELSE [sent |-> IF should_be_forwarded THEN fwd.msgs ELSE << >>,
                   inner |-> << event >>,
                   result |-> InnerResult(innerOk)]

\* What the fuzzer's evaluation of one input may return.
Outcomes == {"Err", "None", "Some", "SomeFireErr"}

\* The two fuzzer calls of handle_in_main, as recorded by the model.
TrustedCall(event, observers, send_events) ==
    [fn |-> "execute_and_process", input |-> event.input,
     observers |-> Some(observers), exit_kind |-> Some(event.exit_kind),
     send_events |-> send_events]

ReexecuteCall(event, send_events) ==
    [fn |-> "evaluate_input_with_observers", input |-> event.input,
     observers |-> None, exit_kind |-> None, send_events |-> send_events]

\* The rest of handle_in_main once the path is chosen.
Evaluated(event, trusted, observers, call, outcome, refired) ==
    LET res == IF outcome = "SomeFireErr" THEN "Some" ELSE outcome
    IN  IF trusted /\ ~observers.ok
        THEN [calls |-> << >>, eval |-> "-", inner |-> << >>, result |-> "Err"]
        ELSE IF res = "Some"
             THEN [calls |-> << call >>, eval |-> res, inner |-> << refired >>,
                   result |-> InnerResult(outcome = "Some")]
             ELSE [calls |-> << call >>, eval |-> res, inner |-> << >>,
                   result |-> IF res = "Err" THEN "Err" ELSE "Ok"]

\* Mutant: the observers are trusted when the config matches OR a buffer
\* is present.
handle_in_main_or(c, sender, event, outcome) ==
    IF event.name = "NewTestcase"
    THEN LET trusted == /\ event.observers_buf # None
             observers == IF trusted
                          THEN observers_from_bytes(event.observers_buf[1])
                          ELSE DecodeError
             call == IF trusted
                     THEN TrustedCall(event, observers.val, FALSE)
                     ELSE ReexecuteCall(event, FALSE)
         IN  Evaluated(event, trusted, observers, call, outcome, event)
    ELSE [calls |-> << >>, eval |-> "-", inner |-> << >>, result |-> "Err"]

\* Mutant: the observers are trusted whenever the config matches.
handle_in_main_config_only(c, sender, event, outcome) ==
    IF event.name = "NewTestcase"
    THEN LET trusted == match_with(event.client_config, configuration(c))
             observers == IF trusted /\ event.observers_buf # None
                          THEN observers_from_bytes(event.observers_buf[1])
                          ELSE Decoded(<< >>)
             call == IF trusted
                     THEN TrustedCall(event, observers.val, FALSE)
                     ELSE ReexecuteCall(event, FALSE)
         IN  Evaluated(event, trusted, observers, call, outcome, event)
    ELSE [calls |-> << >>, eval |-> "-", inner |-> << >>, result |-> "Err"]

\* Mutant: the accepted test case is published without its observers.
handle_in_main_drop_observers(c, sender, event, outcome) ==
    IF event.name = "NewTestcase"
    THEN LET trusted == /\ match_with(event.client_config, configuration(c))
                        /\ event.observers_buf # None
             observers == IF trusted
                          THEN observers_from_bytes(event.observers_buf[1])
                          ELSE DecodeError
             call == IF trusted
                     THEN TrustedCall(event, observers.val, FALSE)
                     ELSE ReexecuteCall(event, FALSE)
         IN  Evaluated(event, trusted, observers, call, outcome,
                       [event EXCEPT !.observers_buf = None])
    ELSE [calls |-> << >>, eval |-> "-", inner |-> << >>, result |-> "Err"]

\* Mutant: an event that is no NewTestcase is dropped without an error.
handle_in_main_ignore_others(c, sender, event, outcome) ==
    IF event.name = "NewTestcase"
    THEN LET trusted == /\ match_with(event.client_config, configuration(c))
                        /\ event.observers_buf # None
             observers == IF trusted
                          THEN observers_from_bytes(event.observers_buf[1])
                          ELSE DecodeError
             call == IF trusted
                     THEN TrustedCall(event, observers.val, FALSE)
                     ELSE ReexecuteCall(event, FALSE)
         IN  Evaluated(event, trusted, observers, call, outcome, event)
    ELSE [calls |-> << >>, eval |-> "-", inner |-> << >>, result |-> "Ok"]

\* handle_in_main: the fuzzer calls made, what the evaluation returned
\* ("-" when none was made), the events fired into the inner manager and the
\* result.
handle_in_main(c, sender, event, outcome) ==
    IF event.name = "NewTestcase"
    THEN LET trusted == /\ match_with(event.client_config, configuration(c))
                        /\ event.observers_buf # None
             observers == IF trusted
                          THEN observers_from_bytes(event.observers_buf[1])
                          ELSE DecodeError
             call == IF trusted
                     THEN TrustedCall(event, observers.val, FALSE)
                     ELSE ReexecuteCall(event, FALSE)
         IN  Evaluated(event, trusted, observers, call, outcome,
                       NewTestcase(event.input, event.client_config,
                                   event.exit_kind, event.corpus_size,
                                   event.observers_buf, event.time,
                                   event.executions, event.forward_id))
    ELSE [calls |-> << >>, eval |-> "-", inner |-> << >>, result |-> "Err"]

RECURSIVE receive_loop_no_skip(_, _, _, _)
\* Mutant: the messages that carry the receiver's own id are handled too.
receive_loop_no_skip(c, q, outs, acc) ==
    IF q = << >>
    THEN acc
    ELSE LET m == Head(q)
             event_bytes == IF LLMP_FLAG_COMPRESSED \subseteq m.flags
                            THEN decompress(m.payload)
                            ELSE Decoded(m.payload)
             event == from_bytes(event_bytes.val)
             h == handle_in_main(c, m.client_id, event.val, Head(outs))
             rec == [client_id |-> m.client_id, event |-> event.val,
                     calls |-> h.calls, eval |-> h.eval, inner |-> h.inner,
                     result |-> h.result]
         IN  IF m.tag # LLMP_TAG_TO_MAIN
             THEN [acc EXCEPT !.rest = Tail(q), !.result = "Panic"]
             ELSE IF ~event_bytes.ok \/ ~event.ok
             THEN [acc EXCEPT !.rest = Tail(q), !.result = "Err"]
             ELSE IF h.result = "Err"
             THEN [acc EXCEPT !.rest = Tail(q), !.result = "Err",
                              !.handled = Append(@, rec)]
             ELSE receive_loop_no_skip(c, Tail(q), Tail(outs),
                                       [acc EXCEPT !.handled = Append(@, rec),
                                                   !.count = @ + 1])

RECURSIVE receive_loop(_, _, _, _)
\* The while-let loop of receive_from_secondary over the readable messages q;
\* outs[i] is what the fuzzer returns for the i-th of them.
receive_loop(c, q, outs, acc) ==
    IF q = << >>
    THEN acc
    ELSE LET m == Head(q)
             event_bytes == IF LLMP_FLAG_COMPRESSED \subseteq m.flags
                            THEN decompress(m.payload)
                            ELSE Decoded(m.payload)
             event == from_bytes(event_bytes.val)
             h == handle_in_main(c, m.client_id, event.val, Head(outs))
             rec == [client_id |-> m.client_id, event |-> event.val,
                     calls |-> h.calls, eval |-> h.eval, inner |-> h.inner,
                     result |-> h.result]
         IN  IF m.tag # LLMP_TAG_TO_MAIN
             THEN [acc EXCEPT !.rest = Tail(q), !.result = "Panic"]
             ELSE IF m.client_id = client_id[c]
             THEN receive_loop(c, Tail(q), Tail(outs),
                               [acc EXCEPT !.skipped = @ + 1])
             ELSE IF ~event_bytes.ok \/ ~event.ok
             THEN [acc EXCEPT !.rest = Tail(q), !.result = "Err"]
             ELSE IF h.result = "Err"
             THEN [acc EXCEPT !.rest = Tail(q), !.result = "Err",
                              !.handled = Append(@, rec)]
             ELSE receive_loop(c, Tail(q), Tail(outs),
                               [acc EXCEPT !.handled = Append(@, rec),
                                           !.count = @ + 1])

\* Mutant: the returned count includes the skipped messages.
receive_from_secondary_count_all(c, q, outs) ==
    LET r == receive_loop(c, q, outs,
                          [rest |-> << >>, handled |-> << >>, count |-> 0,
                           skipped |-> 0, result |-> "Ok"])
    IN  [r EXCEPT !.count = @ + r.skipped]

\* receive_from_secondary: drains the messages readable now.
receive_from_secondary(c, q, outs) ==
    receive_loop(c, q, outs,
                 [rest |-> << >>, handled |-> << >>, count |-> 0,
                  skipped |-> 0, result |-> "Ok"])

\* await_safe_to_unmap_blocking of the transport returns once the consumers
\* have advanced past the last page the client wrote.
SafeToUnmap(c) == toBroker[c] = << >>

\* Mutant: on_restart does not wait for the transport.
on_restart_no_wait(c, innerOk) ==
    [waits |-> FALSE,
     calls |-> << "inner.on_restart" >>,
     result |-> InnerResult(innerOk)]

\* EventRestarter::on_restart: whether it waits for safe-to-unmap, the calls
\* it makes in order and the result.
on_restart(c, innerOk) ==
    [waits |-> TRUE,
     calls |-> << "client.await_safe_to_unmap_blocking", "inner.on_restart" >>,
     result |-> InnerResult(innerOk)]

\* Mutant: send_exiting waits like on_restart does.
send_exiting_waits(c, senderOk, innerOk) ==
    [waits |-> TRUE,
     calls |-> << "client.await_safe_to_unmap_blocking",
                  "inner.send_exiting" >>,
     result |-> InnerResult(innerOk)]

\* EventRestarter::send_exiting: the sender's exiting notice, then the inner
\* manager's; the notice is consumed by the transport's broker itself and
\* never reaches the hook.
send_exiting(c, senderOk, innerOk) ==
    IF ~senderOk
    THEN [waits |-> FALSE,
          calls |-> << "client.sender.send_exiting" >>,
          result |-> "Err"]
    ELSE [waits |-> FALSE,
          calls |-> << "client.sender.send_exiting", "inner.send_exiting" >>,
          result |-> InnerResult(innerOk)]

\* EventRestarter::await_restart_safe.
await_restart_safe(c) ==
    [waits |-> TRUE,
     calls |-> << "client.await_safe_to_unmap_blocking",
                  "inner.await_restart_safe" >>,
     result |-> "Ok"]

---------------------------------------------------------------------------
(* Stages: the traversal of a stage tuple *)

\* What the three methods of one stage do during a traversal: "Run" and
\* "Skip" are restart_progress_should_run returning Ok(true) and Ok(false)
\* with everything else Ok, the others name the call that returns an error,
\* "PerformCrash" is a crash of the process inside perform.
StageOutcomes ==
    {"Run", "Skip", "ShouldRunErr", "PerformErr", "PerformCrash", "ClearErr"}

\* A call as the traversal records it: the stage (position in the tuple), the
\* index the state held when the call was made and what the call returned.
Call(fn, stage, idx) == [fn |-> fn, stage |-> stage, idx |-> idx, ret |-> "Ok"]

Returned(fn, stage, idx, ret) == [Call(fn, stage, idx) EXCEPT !.ret = ret]

\* What the three methods of a stage that behaves as b return.
ShouldRunReturns(b) ==
    IF b = "ShouldRunErr" THEN "Err" ELSE IF b = "Skip" THEN "false" ELSE "true"

PerformReturns(b) ==
    IF b = "PerformErr" THEN "Err"
    ELSE IF b = "PerformCrash" THEN "Crash" ELSE "Ok"

ClearReturns(b) == IF b = "ClearErr" THEN "Err" ELSE "Ok"

\* Mutant: clear_restart_progress is called also after perform failed.
perform_restartable_always_clears(k, b, idx) ==
    LET should_run == Returned("restart_progress_should_run", k, idx,
                               ShouldRunReturns(b))
        perform    == Returned("perform", k, idx, PerformReturns(b))
        clear      == Returned("clear_restart_progress", k, idx,
                               ClearReturns(b))
        entry(ret) == Returned("perform_restartable", k, idx, ret)
    IN  IF should_run.ret = "Err"
        THEN [calls |-> << entry("Err"), should_run >>, result |-> "Err"]
        ELSE IF should_run.ret = "true"
        THEN [calls |-> << entry(IF perform.ret = "Ok" THEN clear.ret
                                 ELSE perform.ret),
                           should_run, perform, clear >>,
              result |-> IF perform.ret = "Ok" THEN clear.ret
                         ELSE perform.ret]
        ELSE [calls |-> << entry(clear.ret), should_run, clear >>,
              result |-> clear.ret]

\* Stage::perform_restartable of stage k behaving as b: its calls, its result.
perform_restartable(k, b, idx) ==
    LET should_run == Returned("restart_progress_should_run", k, idx,
                               ShouldRunReturns(b))
        perform    == Returned("perform", k, idx, PerformReturns(b))
        clear      == Returned("clear_restart_progress", k, idx,
                               ClearReturns(b))
        entry(ret) == Returned("perform_restartable", k, idx, ret)
    IN  IF should_run.ret = "Err"
        THEN [calls |-> << entry("Err"), should_run >>, result |-> "Err"]
        ELSE IF should_run.ret = "true" /\ perform.ret # "Ok"
        THEN [calls |-> << entry(perform.ret), should_run, perform >>,
              result |-> perform.ret]
        ELSE IF should_run.ret = "true"
        THEN [calls |-> << entry(clear.ret), should_run, perform, clear >>,
              result |-> clear.ret]
        ELSE [calls |-> << entry(clear.ret), should_run, clear >>,
              result |-> clear.ret]

\* Mutant: the index is not cleared after a stage that was entered afresh.
perform_all_head_no_clear(L, len, beh, st) ==
    LET k == L - len + 1
        fresh == perform_restartable(k, beh[k], Some(len))
        resumed == perform_restartable(k, beh[k], st.idx)
    IN  IF st.idx # None /\ st.idx[1] < len
        THEN st
        ELSE IF st.idx # None /\ st.idx[1] = len
        THEN IF resumed.result = "Ok"
             THEN [idx |-> None,
                   trace |-> st.trace \o resumed.calls
                                \o << Call("clear_stage", k, st.idx) >>,
                   result |-> "Ok"]
             ELSE [idx |-> st.idx,
                   trace |-> st.trace \o resumed.calls,
                   result |-> resumed.result]
        ELSE IF st.idx # None /\ st.idx[1] > len
        THEN [st EXCEPT !.result = "Panic"]
        ELSE [idx |-> Some(len),
              trace |-> st.trace
                           \o << Call("set_current_stage_idx", k, None) >>
                           \o fresh.calls,
              result |-> fresh.result]

\* Mutant: the stage the index names is skipped like the ones before it.
perform_all_head_skip_resumed(L, len, beh, st) ==
    LET k == L - len + 1
        fresh == perform_restartable(k, beh[k], Some(len))
    IN  IF st.idx # None /\ st.idx[1] <= len
        THEN st
        ELSE IF st.idx # None /\ st.idx[1] > len
        THEN [st EXCEPT !.result = "Panic"]
        ELSE IF fresh.result = "Ok"
             THEN [idx |-> None,
                   trace |-> st.trace
                                \o << Call("set_current_stage_idx", k, None) >>
                                \o fresh.calls
                                \o << Call("clear_stage", k, Some(len)) >>,
                   result |-> "Ok"]
             ELSE [idx |-> Some(len),
                   trace |-> st.trace
                                \o << Call("set_current_stage_idx", k, None) >>
                                \o fresh.calls,
                   result |-> fresh.result]

\* Mutant: the stage before the resume point is entered again.
perform_all_head_resumes_earlier(L, len, beh, st) ==
    LET k == L - len + 1
        fresh == perform_restartable(k, beh[k], Some(len))
        resumed == perform_restartable(k, beh[k], st.idx)
    IN  IF st.idx # None /\ st.idx[1] < len - 1
        THEN st
        ELSE IF st.idx # None /\ st.idx[1] = len
        THEN IF resumed.result = "Ok"
             THEN [idx |-> None,
                   trace |-> st.trace \o resumed.calls
                                \o << Call("clear_stage", k, st.idx) >>,
                   result |-> "Ok"]
             ELSE [idx |-> st.idx,
                   trace |-> st.trace \o resumed.calls,
                   result |-> resumed.result]
        ELSE IF st.idx # None /\ st.idx[1] > len
        THEN [st EXCEPT !.result = "Panic"]
        ELSE IF fresh.result = "Ok"
             THEN [idx |-> None,
                   trace |-> st.trace
                                \o << Call("set_current_stage_idx", k, None) >>
                                \o fresh.calls
                                \o << Call("clear_stage", k, Some(len)) >>,
                   result |-> "Ok"]
             ELSE [idx |-> Some(len),
                   trace |-> st.trace
                                \o << Call("set_current_stage_idx", k, None) >>
                                \o fresh.calls,
                   result |-> fresh.result]

\* Mutant: the persisted index is ignored, every stage is entered afresh.
perform_all_head_ignore_index(L, len, beh, st) ==
    LET k == L - len + 1
        fresh == perform_restartable(k, beh[k], Some(len))
    IN  IF fresh.result = "Ok"
        THEN [idx |-> None,
              trace |-> st.trace
                           \o << Call("set_current_stage_idx", k, None) >>
                           \o fresh.calls
                           \o << Call("clear_stage", k, Some(len)) >>,
              result |-> "Ok"]
        ELSE [idx |-> Some(len),
              trace |-> st.trace
                           \o << Call("set_current_stage_idx", k, None) >>
                           \o fresh.calls,
              result |-> fresh.result]

\* Mutant: the index is cleared also when the stage returned an error.
perform_all_head_clear_on_error(L, len, beh, st) ==
    LET k == L - len + 1
        fresh == perform_restartable(k, beh[k], Some(len))
        resumed == perform_restartable(k, beh[k], st.idx)
    IN  IF st.idx # None /\ st.idx[1] < len
        THEN st
        ELSE IF st.idx # None /\ st.idx[1] = len
        THEN IF resumed.result = "Ok"
             THEN [idx |-> None,
                   trace |-> st.trace \o resumed.calls
                                \o << Call("clear_stage", k, st.idx) >>,
                   result |-> "Ok"]
             ELSE [idx |-> None,
                   trace |-> st.trace \o resumed.calls,
                   result |-> resumed.result]
        ELSE IF st.idx # None /\ st.idx[1] > len
        THEN [st EXCEPT !.result = "Panic"]
        ELSE IF fresh.result = "Ok"
             THEN [idx |-> None,
                   trace |-> st.trace
                                \o << Call("set_current_stage_idx", k, None) >>
                                \o fresh.calls
                                \o << Call("clear_stage", k, Some(len)) >>,
                   result |-> "Ok"]
             ELSE [idx |-> None,
                   trace |-> st.trace
                                \o << Call("set_current_stage_idx", k, None) >>
                                \o fresh.calls,
                   result |-> fresh.result]

\* The head's part of perform_all for (Head, Tail) when the remaining tuple
\* has len elements (Self::LEN) in a tuple of L stages: st holds the index,
\* the calls so far and the result.
perform_all_head(L, len, beh, st) ==
    LET k == L - len + 1
        fresh == perform_restartable(k, beh[k], Some(len))
        resumed == perform_restartable(k, beh[k], st.idx)
    IN  IF st.idx # None /\ st.idx[1] < len
        THEN st
        ELSE IF st.idx # None /\ st.idx[1] = len
        THEN IF resumed.result = "Ok"
             THEN [idx |-> None,
                   trace |-> st.trace \o resumed.calls
                                \o << Call("clear_stage", k, st.idx) >>,
                   result |-> "Ok"]
             ELSE [idx |-> st.idx,
                   trace |-> st.trace \o resumed.calls,
                   result |-> resumed.result]
        ELSE IF st.idx # None /\ st.idx[1] > len
        THEN [st EXCEPT !.result = "Panic"]
        ELSE IF fresh.result = "Ok"
             THEN [idx |-> None,
                   trace |-> st.trace
                                \o << Call("set_current_stage_idx", k, None) >>
                                \o fresh.calls
                                \o << Call("clear_stage", k, Some(len)) >>,
                   result |-> "Ok"]
             ELSE [idx |-> Some(len),
                   trace |-> st.trace
                                \o << Call("set_current_stage_idx", k, None) >>
                                \o fresh.calls,
                   result |-> fresh.result]

\* Mutant: the end of the tuple does not look at the index.
perform_all_unit_ignores_index(st) == st

\* perform_all for (): the end of the tuple.
perform_all_unit(st) ==
    IF st.idx # None THEN [st EXCEPT !.result = "Err"] ELSE st

RECURSIVE perform_all(_, _, _, _)
\* StagesTuple::perform_all of the last len stages of a tuple of L stages.
perform_all(L, len, beh, st) ==
    IF len = 0
    THEN perform_all_unit(st)
    ELSE LET head == perform_all_head(L, len, beh, st)
         IN  IF head.result = "Ok"
             THEN perform_all(L, len - 1, beh, head)
             ELSE head

RECURSIVE perform_all_vec_keeps_going(_, _, _, _)
\* Mutant: the stages after a failed one are run as well.
perform_all_vec_keeps_going(L, k, beh, st) ==
    IF k > L
    THEN st
    ELSE LET r == perform_restartable(k, beh[k], st.idx)
         IN  perform_all_vec_keeps_going(
                 L, k + 1, beh,
                 [st EXCEPT !.trace = @ \o r.calls,
                            !.result = IF @ = "Ok" THEN r.result ELSE @])

RECURSIVE perform_all_vec(_, _, _, _)
\* StagesTuple::perform_all of a Vec of L boxed stages, from the k-th on:
\* try_for_each over perform_restartable.
perform_all_vec(L, k, beh, st) ==
    IF k > L
    THEN st
    ELSE LET r == perform_restartable(k, beh[k], st.idx)
         IN  IF r.result = "Ok"
             THEN perform_all_vec(L, k + 1, beh,
                                  [st EXCEPT !.trace = @ \o r.calls])
             ELSE [st EXCEPT !.trace = @ \o r.calls, !.result = r.result]

\* origin: the index the state held before the first perform_all; cleared:
\* the stages whose clear_restart_progress has returned Ok since the tuple
\* was last begun from its first stage.
\* kind: "tuple" or "vec", the collection of stages that was run; twin: the
\* calls a tuple of the same stages makes on the same state.
NoTraversal ==
    [start |-> None, origin |-> None, after |-> "-", clean |-> TRUE,
     trace |-> << >>, result |-> "-", cleared |-> {}, kind |-> "-",
     twin |-> << >>]

\* The stages whose clear_restart_progress returned Ok in a trace.
ClearedIn(trace) ==
    {trace[i].stage : i \in {j \in 1 .. Len(trace) :
                                /\ trace[j].fn = "clear_restart_progress"
                                /\ trace[j].ret = "Ok"}}

\* The stages that had succeeded when the perform_all after t began.
ClearedBefore(t) == IF t.result \in {"-", "Ok"} THEN {} ELSE t.cleared

---------------------------------------------------------------------------
(* RetryRestartHelper: a fixed number of tries per round *)

CorpusIds == {1, 2}

\* The metadata as named_metadata_or_insert_with creates it.
RetryRestartHelper(tries_remaining, skipped) ==
    [tries_remaining |-> tries_remaining, skipped |-> skipped]

\* Mutant: the skipped set is not consulted.
RetryRestartHelper_should_run_forgets_skipped(meta, corpus_idx, max_retries) ==
    IF corpus_idx = None
    THEN [meta |-> meta, ret |-> "IllegalState"]
    ELSE LET initial_tries_remaining == max_retries + 1
             metadata == IF meta = None
                         THEN RetryRestartHelper(Some(initial_tries_remaining),
                                                 {})
                         ELSE meta[1]
             tries == IF metadata.tries_remaining = None
                      THEN initial_tries_remaining
                      ELSE metadata.tries_remaining[1]
         IN  IF tries = 0
             THEN [meta |-> Some(metadata), ret |-> "IllegalState"]
             ELSE IF tries - 1 = 0
             THEN [meta |-> Some(RetryRestartHelper(
                                Some(0),
                                metadata.skipped \cup {corpus_idx[1]})),
                   ret |-> "false"]
             ELSE [meta |-> Some(RetryRestartHelper(Some(tries - 1),
                                                    metadata.skipped)),
                   ret |-> "true"]

\* Mutant: one try more than max_retries.
RetryRestartHelper_should_run_one_try_more(meta, corpus_idx, max_retries) ==
    IF corpus_idx = None
    THEN [meta |-> meta, ret |-> "IllegalState"]
    ELSE LET initial_tries_remaining == max_retries + 2
             metadata == IF meta = None
                         THEN RetryRestartHelper(Some(initial_tries_remaining),
                                                 {})
                         ELSE meta[1]
             tries == IF metadata.tries_remaining = None
                      THEN initial_tries_remaining
                      ELSE metadata.tries_remaining[1]
         IN  IF tries = 0
             THEN [meta |-> Some(metadata), ret |-> "IllegalState"]
             ELSE IF tries - 1 = 0
             THEN [meta |-> Some(RetryRestartHelper(
                                Some(0),
                                metadata.skipped \cup {corpus_idx[1]})),
                   ret |-> "false"]
             ELSE [meta |-> Some(RetryRestartHelper(Some(tries - 1),
                                                    metadata.skipped)),
                   ret |-> IF corpus_idx[1] \in metadata.skipped
                           THEN "false" ELSE "true"]

\* Mutant: a skipped id is answered before the tries are counted.
RetryRestartHelper_should_run_skipped_first(meta, corpus_idx, max_retries) ==
    IF corpus_idx = None
    THEN [meta |-> meta, ret |-> "IllegalState"]
    ELSE IF meta # None /\ corpus_idx[1] \in meta[1].skipped
    THEN [meta |-> meta, ret |-> "false"]
    ELSE LET initial_tries_remaining == max_retries + 1
             metadata == IF meta = None
                         THEN RetryRestartHelper(Some(initial_tries_remaining),
                                                 {})
                         ELSE meta[1]
             tries == IF metadata.tries_remaining = None
                      THEN initial_tries_remaining
                      ELSE metadata.tries_remaining[1]
         IN  IF tries = 0
             THEN [meta |-> Some(metadata), ret |-> "IllegalState"]
             ELSE IF tries - 1 = 0
             THEN [meta |-> Some(RetryRestartHelper(
                                Some(0),
                                metadata.skipped \cup {corpus_idx[1]})),
                   ret |-> "false"]
             ELSE [meta |-> Some(RetryRestartHelper(Some(tries - 1),
                                                    metadata.skipped)),
                   ret |-> IF corpus_idx[1] \in metadata.skipped
                           THEN "false" ELSE "true"]

\* Mutant: the id is skipped when one try is still left.
RetryRestartHelper_should_run_skips_early(meta, corpus_idx, max_retries) ==
    IF corpus_idx = None
    THEN [meta |-> meta, ret |-> "IllegalState"]
    ELSE LET initial_tries_remaining == max_retries + 1
             metadata == IF meta = None
                         THEN RetryRestartHelper(Some(initial_tries_remaining),
                                                 {})
                         ELSE meta[1]
             tries == IF metadata.tries_remaining = None
                      THEN initial_tries_remaining
                      ELSE metadata.tries_remaining[1]
         IN  IF tries = 0
             THEN [meta |-> Some(metadata), ret |-> "IllegalState"]
             ELSE IF tries - 1 <= 1
             THEN [meta |-> Some(RetryRestartHelper(
                                Some(tries - 1),
                                metadata.skipped \cup {corpus_idx[1]})),
                   ret |-> "false"]
             ELSE [meta |-> Some(RetryRestartHelper(Some(tries - 1),
                                                    metadata.skipped)),
                   ret |-> IF corpus_idx[1] \in metadata.skipped
                           THEN "false" ELSE "true"]

\* Mutant: with no tries left the call answers false instead of failing.
RetryRestartHelper_should_run_saturates(meta, corpus_idx, max_retries) ==
    IF corpus_idx = None
    THEN [meta |-> meta, ret |-> "IllegalState"]
    ELSE LET initial_tries_remaining == max_retries + 1
             metadata == IF meta = None
                         THEN RetryRestartHelper(Some(initial_tries_remaining),
                                                 {})
                         ELSE meta[1]
             tries == IF metadata.tries_remaining = None
                      THEN initial_tries_remaining
                      ELSE metadata.tries_remaining[1]
         IN  IF tries = 0
             THEN [meta |-> Some(metadata), ret |-> "false"]
             ELSE IF tries - 1 = 0
             THEN [meta |-> Some(RetryRestartHelper(
                                Some(0),
                                metadata.skipped \cup {corpus_idx[1]})),
                   ret |-> "false"]
             ELSE [meta |-> Some(RetryRestartHelper(Some(tries - 1),
                                                    metadata.skipped)),
                   ret |-> IF corpus_idx[1] \in metadata.skipped
                           THEN "false" ELSE "true"]

\* RetryRestartHelper::restart_progress_should_run on the metadata meta (None:
\* the state has none under the stage's name) with the current corpus id
\* corpus_idx: the metadata after the call and what the call returns.
RetryRestartHelper_restart_progress_should_run(meta, corpus_idx, max_retries) ==
    IF corpus_idx = None
    THEN [meta |-> meta, ret |-> "IllegalState"]
    ELSE LET initial_tries_remaining == max_retries + 1
             metadata == IF meta = None
                         THEN RetryRestartHelper(Some(initial_tries_remaining),
                                                 {})
                         ELSE meta[1]
             tries == IF metadata.tries_remaining = None
                      THEN initial_tries_remaining
                      ELSE metadata.tries_remaining[1]
         IN  IF tries = 0
             THEN [meta |-> Some(metadata), ret |-> "IllegalState"]
             ELSE IF tries - 1 = 0
             THEN [meta |-> Some(RetryRestartHelper(
                                Some(0),
                                metadata.skipped \cup {corpus_idx[1]})),
                   ret |-> "false"]
             ELSE [meta |-> Some(RetryRestartHelper(Some(tries - 1),
                                                    metadata.skipped)),
                   ret |-> IF corpus_idx[1] \in metadata.skipped
                           THEN "false" ELSE "true"]

\* Mutant: the progress is left as it is.
RetryRestartHelper_clear_keeps_tries(meta) ==
    IF meta = None
    THEN [meta |-> meta, ret |-> "KeyNotFound"]
    ELSE [meta |-> meta, ret |-> "Ok"]

\* RetryRestartHelper::clear_restart_progress.
RetryRestartHelper_clear_restart_progress(meta) ==
    IF meta = None
    THEN [meta |-> meta, ret |-> "KeyNotFound"]
    ELSE [meta |-> Some(RetryRestartHelper(None, meta[1].skipped)),
          ret |-> "Ok"]

\* Stage::perform_restartable of a ClosureStage whose closure ends as out:
\* the metadata after restart_progress_should_run (mid), the metadata at the
\* end, what restart_progress_should_run returned and the result.
ClosureStage_perform_restartable(meta, corpus_idx, out) ==
    LET should_run == RetryRestartHelper_restart_progress_should_run(
                          meta, corpus_idx, ClosureMaxRetries)
        clear == RetryRestartHelper_clear_restart_progress(should_run.meta)
    IN  IF should_run.ret = "IllegalState"
        THEN [mid |-> should_run.meta, meta |-> should_run.meta,
              should_run |-> should_run.ret, cleared |-> FALSE,
              ret |-> "IllegalState"]
        ELSE IF should_run.ret = "true" /\ out # "Ok"
        THEN [mid |-> should_run.meta, meta |-> should_run.meta,
              should_run |-> should_run.ret, cleared |-> FALSE,
              ret |-> out]
        ELSE [mid |-> should_run.meta, meta |-> clear.meta,
              should_run |-> should_run.ret, cleared |-> clear.ret = "Ok",
              ret |-> clear.ret]

\* The skipped set and the tries of a metadata slot.
SkippedOf(meta) == IF meta = None THEN {} ELSE meta[1].skipped

TriesOf(meta) == IF meta = None THEN None ELSE meta[1].tries_remaining

\* tick alternates with every call, so that a call repeated with the same
\* outcome is still seen as a call.
NoRetryCall ==
    [op |-> "-", corpus |-> None, max_retries |-> 0, should_run |-> "-",
     mid |-> None, ret |-> "-", tick |-> 0]

\* No consecutive calls yet: the stage whose first call is still to come.
NoStreak ==
    [corpus |-> None, max_retries |-> 0, count |-> 0, uniform |-> TRUE,
     normal |-> TRUE, normal_n |-> None, calls |-> [i \in CorpusIds |-> 0]]

\* The streak after restart_progress_should_run(max_retries) with corpus id c
\* current: one more consecutive call; uniform while every call of the streak
\* had the same id, not skipped when the streak began, and the same
\* max_retries; normal while every call so far passed one max_retries >= 1
\* and no streak was longer than it; calls counts the calls of the streak
\* per corpus id.
StreakAfterCall(streak, meta, c, max_retries) ==
    LET count == streak.count + 1
        normal == /\ streak.normal
                  /\ max_retries >= 1
                  /\ streak.normal_n \in {None, Some(max_retries)}
                  /\ count <= max_retries
    IN  [corpus |-> IF streak.count = 0 THEN c ELSE streak.corpus,
         max_retries |-> IF streak.count = 0 THEN max_retries
                         ELSE streak.max_retries,
         count |-> count,
         uniform |-> IF streak.count = 0
                     THEN c[1] \notin SkippedOf(meta)
                     ELSE /\ streak.uniform
                          /\ c = streak.corpus
                          /\ max_retries = streak.max_retries,
         normal |-> normal,
         normal_n |-> IF normal THEN Some(max_retries) ELSE None,
         calls |-> [streak.calls EXCEPT ![c[1]] = @ + 1]]

\* The streak after clear_restart_progress: the next call is a first call.
StreakAfterClear(streak) ==
    [NoStreak EXCEPT !.normal = streak.normal, !.normal_n = streak.normal_n]

\* No stage has used its helper.
RetryIdle ==
    /\ retry_meta = None
    /\ current_corpus_id = None
    /\ retry_last = NoRetryCall
    /\ retry_streak = NoStreak

---------------------------------------------------------------------------
(* ExecutionCountRestartHelper: executions since the stage was entered *)

\* The helpers of two stages that share the state's one metadata slot.
Helpers == {"A", "B"}

\* Mutant: every call stores the current execution count.
ExecutionCountRestartHelper_should_run_overwrites(cache, meta, execs) ==
    [cache |-> Some(execs), meta |-> Some(execs), ret |-> "true"]

\* ExecutionCountRestartHelper::restart_progress_should_run: cache is the
\* helper's started_at_execs, meta the state's metadata (None: absent).
ExecutionCountRestartHelper_restart_progress_should_run(cache, meta, execs) ==
    LET metadata == IF meta = None THEN Some(execs) ELSE meta
    IN  [cache |-> Some(metadata[1]), meta |-> metadata, ret |-> "true"]

\* Mutant: only the cache is consulted.
ExecutionCountRestartHelper_execs_since_cache_only(cache, meta, execs) ==
    IF cache # None
    THEN [cache |-> cache, ret |-> "Ok", val |-> execs - cache[1]]
    ELSE [cache |-> cache, ret |-> "IllegalState", val |-> 0]

\* ExecutionCountRestartHelper::execs_since_progress_start.
ExecutionCountRestartHelper_execs_since_progress_start(cache, meta, execs) ==
    IF cache # None
    THEN [cache |-> cache, ret |-> "Ok", val |-> execs - cache[1]]
    ELSE IF meta # None
    THEN [cache |-> Some(meta[1]), ret |-> "Ok", val |-> execs - meta[1]]
    ELSE [cache |-> cache, ret |-> "IllegalState", val |-> 0]

\* Mutant: the metadata stays on the state.
ExecutionCountRestartHelper_clear_keeps_metadata(cache, meta) ==
    [cache |-> None, meta |-> meta,
     assertion |-> IF meta # None THEN "holds" ELSE "fails", ret |-> "Ok"]

\* ExecutionCountRestartHelper::clear_restart_progress; assertion is what
\* the debug_assert on the removed metadata finds.
ExecutionCountRestartHelper_clear_restart_progress(cache, meta) ==
    [cache |-> None, meta |-> None,
     assertion |-> IF meta # None THEN "holds" ELSE "fails", ret |-> "Ok"]

\* fresh: the helper's cache was empty when the call was made.
NoExecCall ==
    [op |-> "-", helper |-> "-", fresh |-> FALSE, ret |-> "-", val |-> 0,
     assertion |-> "-", tick |-> 0]

\* open[h]: the executions at the first restart_progress_should_run of h
\* since its last clear (None: h has no progress); nested: some helper's
\* restart_progress_should_run was called while another had progress; stray:
\* some helper's clear was called while it had no progress.
NoExecHistory ==
    [open |-> [h \in Helpers |-> None], nested |-> FALSE, stray |-> FALSE]

\* No stage has used an ExecutionCountRestartHelper.
ExecIdle ==
    /\ executions = 0
    /\ exec_meta = None
    /\ exec_cache = [h \in Helpers |-> None]
    /\ exec_last = NoExecCall
    /\ exec_hist = NoExecHistory

\* No stage tuple is being run.
StagesIdle ==
    /\ tuple_len = 0
    /\ current_stage_idx = None
    /\ traversal = NoTraversal

---------------------------------------------------------------------------
(* State machine *)

NoOp ==
    [op |-> "none", client |-> "-", arg |-> << >>, sent |-> << >>,
     inner_fired |-> << >>, inner_process |-> FALSE, handled |-> << >>,
     count |-> 0, skipped |-> 0, calls |-> << >>, safe |-> FALSE,
     result |-> "-"]

Injections(S, T) ==
    {f \in [S -> T] : \A a, b \in S : a # b => f[a] # f[b]}

\* Ids are compared for equality only, so the ids of the centralized broker
\* are fixed; the main broker hands the secondaries their ids in either order,
\* so that a manager's two ids may agree or differ.
Init ==
    /\ client_id = [c \in Clients |->
                      CASE c = "S1" -> 1 [] c = "S2" -> 2 [] OTHER -> 3]
    /\ mgr_id \in {f \in Injections(Clients, ClientIds) :
                      f[MainNode] = client_id[MainNode]}
    /\ toBroker = [c \in Clients |-> << >>]
    /\ toClients = << >>
    /\ broker = "running"
    /\ status = [c \in Clients |-> "running"]
    /\ last = NoOp
    /\ StagesIdle
    /\ RetryIdle
    /\ ExecIdle

Inputs == {<< 170 >>}
ObserverBufs == {None, Some(<< 1, 9 >>), Some(<< 2, 9 >>)}

\* The events handed to fire: every NewTestcase arrives with forward_id =
\* None or with the forward_id of an earlier forwarding.
TestcaseEvents ==
    {NewTestcase(i, cfg, 0, 1, obs, 1, 1, None) :
        i \in Inputs, cfg \in EventConfigs, obs \in ObserverBufs}
    \cup {NewTestcase(i, 1, 0, 1, None, 1, 1, Some(2)) : i \in Inputs}

OtherEvents == {Objective(1), Log(1, << 104 >>)}

Events == TestcaseEvents \cup {UpdateExecStats(1, 1)} \cup OtherEvents

\* Which fallible call of fire fails, if any.
Faults == {"none", "forward", "inner"}

\* A fault can only strike a call that fire makes.
FaultApplies(c, e, fault) ==
    LET forwarded == ~is_main(c)
                        /\ e.name \in {"NewTestcase", "UpdateExecStats"}
    IN  /\ fault = "forward" => forwarded
        /\ fault = "inner" => ~(forwarded /\ e.name = "NewTestcase")

\* A manager's fire is called with some event.
Fire(c, e, fault) ==
    LET r == fire(c, e, fault # "forward", fault # "inner")
    IN  /\ status[c] = "running"
        /\ FaultApplies(c, e, fault)
        /\ r.sent # << >> => InFlight < MaxInFlight
        /\ toBroker' = [toBroker EXCEPT ![c] = @ \o r.sent]
        /\ last' = [NoOp EXCEPT !.op = "fire", !.client = c, !.arg = << e >>,
                                !.sent = r.sent, !.inner_fired = r.inner,
                                !.result = r.result]
        /\ UNCHANGED << mgr_id, client_id, toClients, broker, status >>
        /\ UNCHANGED << svars, rvars, evars >>

\* The broker takes the next message of client c and runs the hook on it.
BrokerDispatch(c) ==
    /\ broker = "running"
    /\ toBroker[c] # << >>
    /\ LET m == Head(toBroker[c])
           r == broker_loop(m)
       IN  /\ toBroker' = [toBroker EXCEPT ![c] = Tail(@)]
           /\ toClients' = IF r = "ForwardToClients"
                           THEN Append(toClients, m) ELSE toClients
           /\ broker' = IF r = "Err" THEN "stopped" ELSE broker
           /\ last' = [NoOp EXCEPT !.op = "broker", !.client = c,
                                   !.arg = << m >>,
                                   !.sent = IF r = "ForwardToClients"
                                            THEN << m >> ELSE << >>,
                                   !.result = r]
    /\ UNCHANGED << mgr_id, client_id, status >>
    /\ UNCHANGED << svars, rvars, evars >>

\* Mutant: every manager drains the centralized channel.
Process_without_is_main(c) ==
    /\ status[c] = "running"
    /\ IF TRUE
       THEN \E outs \in [1 .. Len(toClients) -> Outcomes] :
              LET r == receive_from_secondary(c, toClients, outs)
              IN  /\ toClients' = r.rest
                  /\ status' = IF r.result = "Panic"
                               THEN [status EXCEPT ![c] = "panicked"]
                               ELSE status
                  /\ last' = [NoOp EXCEPT !.op = "process", !.client = c,
                                          !.arg = toClients,
                                          !.handled = r.handled,
                                          !.count = r.count,
                                          !.skipped = r.skipped,
                                          !.result = r.result]
       ELSE /\ last' = [NoOp EXCEPT !.op = "process", !.client = c,
                                    !.inner_process = TRUE, !.result = "Ok"]
            /\ UNCHANGED << toClients, status >>
    /\ UNCHANGED << mgr_id, client_id, toBroker, broker >>
    /\ UNCHANGED << svars, rvars, evars >>

\* EventProcessor::process of a manager.
Process(c) ==
    /\ status[c] = "running"
    /\ IF is_main(c)
       THEN \E outs \in [1 .. Len(toClients) -> Outcomes] :
              LET r == receive_from_secondary(c, toClients, outs)
              IN  /\ toClients' = r.rest
                  /\ status' = IF r.result = "Panic"
                               THEN [status EXCEPT ![c] = "panicked"]
                               ELSE status
                  /\ last' = [NoOp EXCEPT !.op = "process", !.client = c,
                                          !.arg = toClients,
                                          !.handled = r.handled,
                                          !.count = r.count,
                                          !.skipped = r.skipped,
                                          !.result = r.result]
       ELSE /\ last' = [NoOp EXCEPT !.op = "process", !.client = c,
                                    !.inner_process = TRUE, !.result = "Ok"]
            /\ UNCHANGED << toClients, status >>
    /\ UNCHANGED << mgr_id, client_id, toBroker, broker >>
    /\ UNCHANGED << svars, rvars, evars >>

\* Which fallible call of a restart handler fails, if any.
RestartFaults == {"none", "sender", "inner"}

\* A restart handler of manager c runs; a handler that waits for the
\* transport returns only once the page is safe to unmap.
Restarter(c, op, r) ==
    /\ status[c] = "running"
    /\ r.waits => SafeToUnmap(c)
    /\ last' = [NoOp EXCEPT !.op = op, !.client = c, !.calls = r.calls,
                            !.safe = SafeToUnmap(c), !.result = r.result]
    /\ UNCHANGED << mgr_id, client_id, toBroker, toClients, broker, status >>
    /\ UNCHANGED << svars, rvars, evars >>

OnRestart(c, fault) ==
    /\ fault \in {"none", "inner"}
    /\ Restarter(c, "on_restart", on_restart(c, fault # "inner"))

SendExiting(c, fault) ==
    /\ fault \in RestartFaults
    /\ Restarter(c, "send_exiting",
                 send_exiting(c, fault # "sender", fault # "inner"))

AwaitRestartSafe(c) ==
    /\ c \in Clients
    /\ Restarter(c, "await_restart_safe", await_restart_safe(c))

Next ==
    \/ \E c \in Clients, e \in Events, fault \in Faults : Fire(c, e, fault)
    \/ \E c \in Clients : BrokerDispatch(c)
    \/ \E c \in Clients : Process(c)

Spec == Init /\ [][Next]_vars

\* The frames a client of the broker may put on its page when it is not
\* known to be a CentralizedEventManager: any tag, any flags, payloads that
\* are events of any variant (inflated or not) or no events at all.
OtherTag == LLMP_TAG_TO_MAIN + 1

Plain(payload) == [flags |-> LLMP_FLAG_INITIALIZED, payload |-> payload]

Flagged(payload) ==
    [flags |-> LLMP_FLAG_INITIALIZED \cup LLMP_FLAG_COMPRESSED,
     payload |-> payload]

RawBodies ==
    {Plain(<< 255 >>),
     Flagged(<< 255, 7 >>),
     Plain(to_allocvec(Log(1, << 104 >>))),
     Plain(to_allocvec(Objective(1))),
     Flagged(to_allocvec(Objective(1))),
     Flagged(compress(to_allocvec(CustomBuf(<< 7 >>, << 8 >>)))),
     Plain(to_allocvec(UpdateExecStats(1, 1))),
     Plain(to_allocvec(NewTestcase(<< 170 >>, 1, 0, 1, None, 1, 1, None))),
     Flagged(compress(to_allocvec(
         NewTestcase(<< 170 >>, 1, 0, 1, Some(<< 1, 9 >>), 1, 1, Some(2)))))}

RawFrames ==
    {[tag |-> LLMP_TAG_TO_MAIN, flags |-> b.flags, payload |-> b.payload] :
        b \in RawBodies}
    \cup {[tag |-> OtherTag, flags |-> b.flags, payload |-> b.payload] :
            b \in {Plain(<< 255 >>), Flagged(<< 255, 7 >>),
                   Plain(to_allocvec(Log(1, << 104 >>)))}}

\* A frame is written to the page of client c without going through fire.
RawSend(c, f) ==
    LET m == send_buf_with_flags(c, f.tag, f.flags, f.payload)
    IN  /\ status[c] = "running"
        /\ InFlight < MaxInFlight
        /\ toBroker' = [toBroker EXCEPT ![c] = Append(@, m)]
        /\ last' = [NoOp EXCEPT !.op = "raw", !.client = c, !.arg = << m >>,
                                !.sent = << m >>, !.result = "Ok"]
        /\ UNCHANGED << mgr_id, client_id, toClients, broker, status >>
        /\ UNCHANGED << svars, rvars, evars >>

NextRaw ==
    \/ \E c \in Clients, f \in RawFrames : RawSend(c, f)
    \/ \E c \in Clients : BrokerDispatch(c)
    \/ \E c \in Clients : Process(c)

\* The broker's loop_forever keeps dispatching what its clients wrote and the
\* main evaluator's fuzz loop keeps calling process.
\* What the two loops do to the channel: a BrokerDispatch(c) step is the one
\* step that takes the head off c's page, a Process step of the main the one
\* step that takes messages off its queue, and each can be taken exactly when
\* the action itself can.
BrokerTakes(c) ==
    /\ broker = "running"
    /\ toBroker[c] # << >>
    /\ toBroker' = [toBroker EXCEPT ![c] = Tail(@)]

MainTakes ==
    /\ status[MainNode] = "running"
    /\ toClients # << >>
    /\ \E n \in 1 .. Len(toClients) :
          toClients' = SubSeq(toClients, n + 1, Len(toClients))

Fairness ==
    /\ \A c \in Clients : WF_toBroker(BrokerTakes(c))
    /\ WF_toClients(MainTakes)

\* The secondaries forward test cases and heartbeats while the broker
\* dispatches and the managers process.
LiveTraffic ==
    {e \in TestcaseEvents : e.forward_id = None} \cup {UpdateExecStats(1, 1)}

NextLive ==
    \/ \E c \in Secondaries, e \in LiveTraffic : Fire(c, e, "none")
    \/ \E c \in Clients : BrokerDispatch(c)
    \/ \E c \in Clients : Process(c)

SpecLive == Init /\ [][NextLive]_vars /\ Fairness

SpecRaw == Init /\ [][NextRaw]_vars

\* The main evaluator's process as a function of what its receive queue holds:
\* the queue starts with any frames of a secondary or of the main's own id,
\* as a broker that forwards everything would deliver them.
DrainSenders == {"S1", MainNode}

DrainBodies ==
    {Plain(<< 255 >>),
     Plain(to_allocvec(Log(1, << 104 >>))),
     Plain(to_allocvec(NewTestcase(<< 170 >>, 1, 0, 1, None, 1, 1, None))),
     Flagged(compress(to_allocvec(
         NewTestcase(<< 170 >>, 1, 0, 1, Some(<< 1, 9 >>), 1, 1, Some(2)))))}

DrainFrames ==
    {[tag |-> LLMP_TAG_TO_MAIN, flags |-> b.flags, payload |-> b.payload] :
        b \in DrainBodies}
    \cup {[tag |-> OtherTag, flags |-> LLMP_FLAG_INITIALIZED,
           payload |-> << 255 >>]}

DrainQueues ==
    UNION {[1 .. n -> {send_buf_with_flags(c, f.tag, f.flags, f.payload) :
                          c \in DrainSenders, f \in DrainFrames}] :
              n \in 0 .. MaxQueue}

InitDrain ==
    /\ client_id = [c \in Clients |->
                      CASE c = "S1" -> 1 [] c = "S2" -> 2 [] OTHER -> 3]
    /\ mgr_id \in {f \in Injections(Clients, ClientIds) :
                      f[MainNode] = client_id[MainNode]}
    /\ toBroker = [c \in Clients |-> << >>]
    /\ toClients \in DrainQueues
    /\ broker = "running"
    /\ status = [c \in Clients |-> "running"]
    /\ last = NoOp
    /\ StagesIdle
    /\ RetryIdle
    /\ ExecIdle

NextDrain == \E c \in Clients : Process(c)

SpecDrain == InitDrain /\ [][NextDrain]_vars

\* The managers' restart handlers next to the traffic of the channel.
RestartTraffic ==
    {NewTestcase(<< 170 >>, 1, 0, 1, None, 1, 1, None), UpdateExecStats(1, 1)}

NextRestart ==
    \/ \E c \in Clients, e \in RestartTraffic : Fire(c, e, "none")
    \/ \E c \in Clients : BrokerDispatch(c)
    \/ \E c \in Clients : Process(c)
    \/ \E c \in Clients, fault \in RestartFaults : OnRestart(c, fault)
    \/ \E c \in Clients, fault \in RestartFaults : SendExiting(c, fault)
    \/ \E c \in Clients : AwaitRestartSafe(c)

SpecRestart == Init /\ [][NextRestart]_vars

\* A fuzzer with a tuple of up to MaxStages stages; the event managers stay
\* as they were built.
InitStages ==
    /\ client_id = [c \in Clients |->
                      CASE c = "S1" -> 1 [] c = "S2" -> 2 [] OTHER -> 3]
    /\ mgr_id = client_id
    /\ toBroker = [c \in Clients |-> << >>]
    /\ toClients = << >>
    /\ broker = "running"
    /\ status = [c \in Clients |-> "running"]
    /\ last = NoOp
    /\ tuple_len \in 0 .. MaxStages
    /\ current_stage_idx = None
    /\ traversal = NoTraversal
    /\ RetryIdle
    /\ ExecIdle

\* One perform_all over the whole tuple, on the state as the last run (ended,
\* failed or crashed) left it; beh[k] is how the k-th stage behaves.
PerformAll(beh) ==
    LET r == perform_all(tuple_len, tuple_len, beh,
                         [idx |-> current_stage_idx, trace |-> << >>,
                          result |-> "Ok"])
    IN  /\ current_stage_idx' = r.idx
        /\ traversal' = [start |-> current_stage_idx,
                         origin |-> traversal.origin,
                         after |-> traversal.result,
                         clean |-> \A k \in 1 .. tuple_len :
                                      beh[k] \in {"Run", "Skip"},
                         trace |-> r.trace,
                         result |-> r.result,
                         cleared |-> ClearedBefore(traversal)
                                        \cup ClearedIn(r.trace),
                         kind |-> "tuple",
                         twin |-> r.trace]
        /\ UNCHANGED tuple_len
        /\ UNCHANGED cvars
        /\ UNCHANGED rvars
        /\ UNCHANGED evars

NextStages == \E beh \in [1 .. tuple_len -> StageOutcomes] : PerformAll(beh)

SpecStages == InitStages /\ [][NextStages]_vars

\* The fuzzer is started on a state that was persisted with any index.
InitPersisted ==
    /\ client_id = [c \in Clients |->
                      CASE c = "S1" -> 1 [] c = "S2" -> 2 [] OTHER -> 3]
    /\ mgr_id = client_id
    /\ toBroker = [c \in Clients |-> << >>]
    /\ toClients = << >>
    /\ broker = "running"
    /\ status = [c \in Clients |-> "running"]
    /\ last = NoOp
    /\ tuple_len \in 0 .. MaxStages
    /\ current_stage_idx \in {None} \cup {Some(i) : i \in 0 .. MaxStages + 1}
    /\ traversal = [NoTraversal EXCEPT !.origin = current_stage_idx]
    /\ RetryIdle
    /\ ExecIdle

SpecPersisted == InitPersisted /\ [][NextStages]_vars

\* One perform_all over a Vec of the same stages.  The record keeps nothing
\* of the traversal before (after stays "-"): the Vec starts from its first
\* stage whatever came before.
PerformAllVec(beh) ==
    LET entry == [idx |-> current_stage_idx, trace |-> << >>,
                  result |-> "Ok"]
        r == perform_all_vec(tuple_len, 1, beh, entry)
        tuple == perform_all(tuple_len, tuple_len, beh, entry)
    IN  /\ current_stage_idx' = r.idx
        /\ traversal' = [start |-> current_stage_idx,
                         origin |-> traversal.origin,
                         after |-> "-",
                         clean |-> \A k \in 1 .. tuple_len :
                                      beh[k] \in {"Run", "Skip"},
                         trace |-> r.trace,
                         result |-> r.result,
                         cleared |-> ClearedIn(r.trace),
                         kind |-> "vec",
                         twin |-> tuple.trace]
        /\ UNCHANGED tuple_len
        /\ UNCHANGED cvars
        /\ UNCHANGED rvars
        /\ UNCHANGED evars

NextVec == \E beh \in [1 .. tuple_len -> StageOutcomes] : PerformAllVec(beh)

SpecVec == InitPersisted /\ [][NextVec]_vars

---------------------------------------------------------------------------
(* The retry helper on its own: one stage, calls in any order *)

InitRetry ==
    /\ client_id = [c \in Clients |->
                      CASE c = "S1" -> 1 [] c = "S2" -> 2 [] OTHER -> 3]
    /\ mgr_id = client_id
    /\ toBroker = [c \in Clients |-> << >>]
    /\ toClients = << >>
    /\ broker = "running"
    /\ status = [c \in Clients |-> "running"]
    /\ last = NoOp
    /\ StagesIdle
    /\ RetryIdle
    /\ ExecIdle

\* The fuzzer moves to another corpus entry, or to none.
SetCorpusId(c) ==
    /\ current_corpus_id # c
    /\ current_corpus_id' = c
    /\ UNCHANGED << retry_meta, retry_last, retry_streak >>
    /\ UNCHANGED << cvars, svars, evars >>

\* A stage calls RetryRestartHelper::restart_progress_should_run.
RetryShouldRun(max_retries) ==
    LET r == RetryRestartHelper_restart_progress_should_run(
                 retry_meta, current_corpus_id, max_retries)
    IN  /\ retry_streak.count < MaxRetries + 2
        /\ retry_meta' = r.meta
        /\ retry_last' = [NoRetryCall EXCEPT
                             !.tick = 1 - retry_last.tick,
                             !.op = "restart_progress_should_run",
                             !.corpus = current_corpus_id,
                             !.max_retries = max_retries,
                             !.should_run = r.ret,
                             !.mid = r.meta,
                             !.ret = r.ret]
        /\ retry_streak' = IF current_corpus_id = None
                           THEN retry_streak
                           ELSE StreakAfterCall(retry_streak, retry_meta,
                                                current_corpus_id, max_retries)
        /\ UNCHANGED current_corpus_id
        /\ UNCHANGED << cvars, svars, evars >>

\* A stage calls RetryRestartHelper::clear_restart_progress.
RetryClear ==
    LET r == RetryRestartHelper_clear_restart_progress(retry_meta)
    IN  /\ retry_meta' = r.meta
        /\ retry_last' = [NoRetryCall EXCEPT
                             !.tick = 1 - retry_last.tick,
                             !.op = "clear_restart_progress",
                             !.corpus = current_corpus_id,
                             !.ret = r.ret]
        /\ retry_streak' = IF r.ret = "Ok"
                           THEN StreakAfterClear(retry_streak)
                           ELSE retry_streak
        /\ UNCHANGED current_corpus_id
        /\ UNCHANGED << cvars, svars, evars >>

\* perform_restartable of a ClosureStage; the closure ends as out.
ClosureRestartable(out) ==
    LET r == ClosureStage_perform_restartable(retry_meta, current_corpus_id,
                                              out)
        called == IF current_corpus_id = None
                  THEN retry_streak
                  ELSE StreakAfterCall(retry_streak, retry_meta,
                                       current_corpus_id, ClosureMaxRetries)
    IN  /\ retry_streak.count < ClosureMaxRetries + 1
        /\ retry_meta' = r.meta
        /\ retry_last' = [NoRetryCall EXCEPT
                             !.tick = 1 - retry_last.tick,
                             !.op = "perform_restartable",
                             !.corpus = current_corpus_id,
                             !.max_retries = ClosureMaxRetries,
                             !.should_run = r.should_run,
                             !.mid = r.mid,
                             !.ret = r.ret]
        /\ retry_streak' = IF r.cleared THEN StreakAfterClear(called)
                           ELSE called
        /\ UNCHANGED current_corpus_id
        /\ UNCHANGED << cvars, svars, evars >>

NextRetry ==
    \/ \E c \in {None} \cup {Some(i) : i \in CorpusIds} : SetCorpusId(c)
    \/ \E max_retries \in 0 .. MaxRetries : RetryShouldRun(max_retries)
    \/ RetryClear
    \/ \E out \in {"Ok", "Err", "Crash"} : ClosureRestartable(out)

SpecRetry == InitRetry /\ [][NextRetry]_vars

---------------------------------------------------------------------------
(* The execution count helper: one stage, and two stages on one state *)

InitExec ==
    /\ client_id = [c \in Clients |->
                      CASE c = "S1" -> 1 [] c = "S2" -> 2 [] OTHER -> 3]
    /\ mgr_id = client_id
    /\ toBroker = [c \in Clients |-> << >>]
    /\ toClients = << >>
    /\ broker = "running"
    /\ status = [c \in Clients |-> "running"]
    /\ last = NoOp
    /\ StagesIdle
    /\ RetryIdle
    /\ ExecIdle

\* The target is executed once.
Execute ==
    /\ executions < MaxExecs
    /\ executions' = executions + 1
    /\ UNCHANGED << exec_meta, exec_cache, exec_last, exec_hist >>
    /\ UNCHANGED << cvars, svars, rvars >>

\* The stage of helper h calls restart_progress_should_run.
ExecShouldRun(h) ==
    LET r == ExecutionCountRestartHelper_restart_progress_should_run(
                 exec_cache[h], exec_meta, executions)
    IN  /\ exec_meta' = r.meta
        /\ exec_cache' = [exec_cache EXCEPT ![h] = r.cache]
        /\ exec_last' = [NoExecCall EXCEPT
                            !.op = "restart_progress_should_run",
                            !.helper = h,
                            !.fresh = exec_cache[h] = None,
                            !.ret = r.ret,
                            !.tick = 1 - exec_last.tick]
        /\ exec_hist' =
              [open |-> IF exec_hist.open[h] = None
                        THEN [exec_hist.open EXCEPT ![h] = Some(executions)]
                        ELSE exec_hist.open,
               nested |-> \/ exec_hist.nested
                          \/ \E g \in Helpers \ {h} :
                                exec_hist.open[g] # None,
               stray |-> exec_hist.stray]
        /\ UNCHANGED executions
        /\ UNCHANGED << cvars, svars, rvars >>

\* The stage of helper h asks for the executions since it was entered.
ExecsSince(h) ==
    LET r == ExecutionCountRestartHelper_execs_since_progress_start(
                 exec_cache[h], exec_meta, executions)
    IN  /\ exec_cache' = [exec_cache EXCEPT ![h] = r.cache]
        /\ exec_last' = [NoExecCall EXCEPT
                            !.op = "execs_since_progress_start",
                            !.helper = h,
                            !.fresh = exec_cache[h] = None,
                            !.ret = r.ret,
                            !.val = r.val,
                            !.tick = 1 - exec_last.tick]
        /\ UNCHANGED << executions, exec_meta, exec_hist >>
        /\ UNCHANGED << cvars, svars, rvars >>

\* The stage of helper h calls clear_restart_progress.
ExecClear(h) ==
    LET r == ExecutionCountRestartHelper_clear_restart_progress(
                 exec_cache[h], exec_meta)
    IN  /\ exec_meta' = r.meta
        /\ exec_cache' = [exec_cache EXCEPT ![h] = r.cache]
        /\ exec_last' = [NoExecCall EXCEPT
                            !.op = "clear_restart_progress",
                            !.helper = h,
                            !.ret = r.ret,
                            !.assertion = r.assertion,
                            !.tick = 1 - exec_last.tick]
        /\ exec_hist' = [exec_hist EXCEPT
                            !.open[h] = None,
                            !.stray = @ \/ exec_hist.open[h] = None]
        /\ UNCHANGED executions
        /\ UNCHANGED << cvars, svars, rvars >>

\* The process crashes and restarts on the persisted state: every stage has
\* a fresh helper, ExecutionCountRestartHelper::new().
ExecRestart ==
    /\ \E h \in Helpers : exec_cache[h] # None
    /\ exec_cache' = [h \in Helpers |-> None]
    /\ exec_last' = [NoExecCall EXCEPT !.op = "restart",
                                       !.tick = 1 - exec_last.tick]
    /\ UNCHANGED << executions, exec_meta, exec_hist >>
    /\ UNCHANGED << cvars, svars, rvars >>

\* What the stage of helper h may do.
StageOf(h) == ExecShouldRun(h) \/ ExecsSince(h) \/ ExecClear(h)

\* One stage with its helper.
NextExec == Execute \/ StageOf("A") \/ ExecRestart

SpecExec == InitExec /\ [][NextExec]_vars

\* Two stages, each with its helper, in any order.
NextNested == Execute \/ (\E h \in Helpers : StageOf(h)) \/ ExecRestart

SpecNested == InitExec /\ [][NextNested]_vars

---------------------------------------------------------------------------
(* Properties *)

\* The event a frame carries, as a receiver decodes it.
Carried(m) ==
    LET event_bytes == IF LLMP_FLAG_COMPRESSED \subseteq m.flags
                       THEN decompress(m.payload)
                       ELSE Decoded(m.payload)
    IN  IF event_bytes.ok THEN from_bytes(event_bytes.val) ELSE DecodeError

CarriesName(m, n) == Carried(m).ok /\ Carried(m).val.name = n

\* The last operation was fire on a secondary with an event named in names.
SecondaryFired(names) ==
    /\ last.op = "fire"
    /\ ~is_main(last.client)
    /\ last.arg[1].name \in names

\* The message a fire put on the channel is the newest of the sender's page.
SentIsOnChannel ==
    /\ Len(last.sent) = 1
    /\ toBroker[last.client] # << >>
    /\ toBroker[last.client][Len(toBroker[last.client])] = last.sent[1]

\* The secondary whose centralized transport client has this id.
SenderOf(id) == CHOOSE c \in Clients : client_id[c] = id

\* C1: a secondary that fires a NewTestcase never hands it to inner.fire; when
\* fire returns Ok exactly one message, tagged TAG_TO_MAIN and carrying the
\* test case, went onto the centralized channel, and when forwarding failed
\* none did.
C1_TestcaseOnlyToCentralized ==
    SecondaryFired({"NewTestcase"}) =>
        /\ last.inner_fired = << >>
        /\ last.result = "Ok" =>
              /\ SentIsOnChannel
              /\ last.sent[1].tag = LLMP_TAG_TO_MAIN
              /\ last.sent[1].client_id = client_id[last.client]
              /\ CarriesName(last.sent[1], "NewTestcase")
              /\ Carried(last.sent[1]).val.input = last.arg[1].input
        /\ last.result # "Ok" => last.sent = << >>

C1_Witness ==
    /\ SecondaryFired({"NewTestcase"})
    /\ last.result = "Ok"
    /\ SentIsOnChannel
    /\ last.inner_fired = << >>

\* C2: every NewTestcase a secondary puts on the centralized channel carries
\* forward_id = Some(mgr_id of that secondary), whatever forward_id the event
\* had when it was handed to fire.
C2_ForwardIdIsOwnId ==
    /\ \A c \in Secondaries : \A i \in 1 .. Len(toBroker[c]) :
          CarriesName(toBroker[c][i], "NewTestcase") =>
              Carried(toBroker[c][i]).val.forward_id = Some(mgr_id[c])
    /\ (SecondaryFired({"NewTestcase"}) /\ last.sent # << >>) =>
          Carried(last.sent[1]).val =
              [last.arg[1] EXCEPT !.forward_id = Some(mgr_id[last.client])]

C2_Witness ==
    /\ SecondaryFired({"NewTestcase"})
    /\ last.sent # << >>
    /\ last.arg[1].forward_id # None
    /\ last.arg[1].forward_id # Some(mgr_id[last.client])
    /\ Carried(last.sent[1]).val.forward_id = Some(mgr_id[last.client])

\* The test cases the main evaluator handled in its last process call.
MainHandled ==
    IF last.op = "process" /\ is_main(last.client)
    THEN {last.handled[i] : i \in 1 .. Len(last.handled)}
    ELSE {}

\* C3 as stated: every NewTestcase the main receives has forward_id equal to
\* Some(client id the centralized transport reports as the sender).
C3_ForwardIdIsTransportSender ==
    \A h \in MainHandled :
        h.event.name = "NewTestcase" =>
            h.event.forward_id = Some(h.client_id)

\* C3 amended: every NewTestcase the main receives from a secondary has
\* forward_id = Some(inner mgr_id of the sending secondary), the id the main
\* broker gave it, which need not be the centralized transport's sender id.
C3_ForwardIdIsSenderMgrId ==
    /\ \A h \in MainHandled :
          h.event.name = "NewTestcase" =>
              h.event.forward_id = Some(mgr_id[SenderOf(h.client_id)])
    /\ \A i \in 1 .. Len(toClients) :
          CarriesName(toClients[i], "NewTestcase") =>
              Carried(toClients[i]).val.forward_id =
                  Some(mgr_id[SenderOf(toClients[i].client_id)])

C3_Witness ==
    \E h \in MainHandled :
        /\ h.event.name = "NewTestcase"
        /\ h.event.forward_id = Some(mgr_id[SenderOf(h.client_id)])
        /\ h.event.forward_id # Some(h.client_id)

\* The last operation was the broker's hook on a frame with or without the
\* to-main tag.
BrokerSaw(toMain) ==
    /\ last.op = "broker"
    /\ (last.arg[1].tag = LLMP_TAG_TO_MAIN) = toMain

\* C4: on a TAG_TO_MAIN frame whose event decodes, the broker returns
\* ForwardToClients exactly for NewTestcase and Handled for every other
\* variant, and only forwarded frames reach the clients: no TAG_TO_MAIN frame
\* on the broadcast page carries anything but a NewTestcase.
C4_BrokerForwardsOnlyTestcases ==
    /\ (BrokerSaw(TRUE) /\ Carried(last.arg[1]).ok) =>
          /\ last.result \in {"ForwardToClients", "Handled"}
          /\ (last.result = "ForwardToClients")
                = CarriesName(last.arg[1], "NewTestcase")
          /\ last.sent = IF last.result = "ForwardToClients"
                         THEN last.arg ELSE << >>
    /\ (BrokerSaw(TRUE) /\ ~Carried(last.arg[1]).ok) =>
          /\ last.result = "Err"
          /\ last.sent = << >>
    /\ \A i \in 1 .. Len(toClients) :
          toClients[i].tag = LLMP_TAG_TO_MAIN =>
              CarriesName(toClients[i], "NewTestcase")

C4_Witness ==
    /\ BrokerSaw(TRUE)
    /\ Carried(last.arg[1]).ok
    /\ Carried(last.arg[1]).val.name \in {"Log", "Objective", "CustomBuf"}
    /\ last.result = "Handled"
    /\ toClients = << >>

\* C5: a frame whose tag is not TAG_TO_MAIN is answered ForwardToClients
\* without being inflated or decoded, whatever its flags and payload, and
\* the frame on the broadcast page is the frame that was sent.
C5_OtherTagsVerbatim ==
    BrokerSaw(FALSE) =>
        /\ last.result = "ForwardToClients"
        /\ last.sent = last.arg
        /\ toClients # << >>
        /\ toClients[Len(toClients)] = last.arg[1]
        /\ broker = "running"

C5_Witness ==
    /\ BrokerSaw(FALSE)
    /\ LLMP_FLAG_COMPRESSED \subseteq last.arg[1].flags
    /\ ~Carried(last.arg[1]).ok
    /\ toClients # << >>
    /\ toClients[Len(toClients)].payload = last.arg[1].payload

\* C6: a secondary that fires UpdateExecStats first sends it with TAG_TO_MAIN
\* and then hands it to inner.fire (a failed send ends fire before inner.fire;
\* a failing inner.fire comes after the send); the broker answers Handled for
\* it and no frame on the broadcast page carries it.
C6_HeartbeatStopsAtBroker ==
    /\ SecondaryFired({"UpdateExecStats"}) =>
          IF last.sent = << >>
          THEN last.result = "Err" /\ last.inner_fired = << >>
          ELSE /\ SentIsOnChannel
               /\ last.sent[1].tag = LLMP_TAG_TO_MAIN
               /\ Carried(last.sent[1]) = Decoded(last.arg[1])
               /\ last.inner_fired = last.arg
    /\ (BrokerSaw(TRUE) /\ CarriesName(last.arg[1], "UpdateExecStats")) =>
          last.result = "Handled" /\ last.sent = << >>
    /\ \A i \in 1 .. Len(toClients) :
          ~CarriesName(toClients[i], "UpdateExecStats")
    /\ \A h \in MainHandled : h.event.name # "UpdateExecStats"

C6_Witness ==
    /\ BrokerSaw(TRUE)
    /\ CarriesName(last.arg[1], "UpdateExecStats")
    /\ last.result = "Handled"
    /\ last.client \in Secondaries
    /\ toClients = << >>

\* C7: when a secondary fires an event that is neither NewTestcase nor
\* UpdateExecStats, the step leaves the centralized channel as it was and
\* hands exactly that event, unchanged, to inner.fire once.
C7_OtherEventsOnlyToInner ==
    [][(/\ last'.op = "fire"
        /\ ~is_main(last'.client)
        /\ last'.arg[1].name \notin {"NewTestcase", "UpdateExecStats"})
       => (/\ toBroker' = toBroker
           /\ toClients' = toClients
           /\ last'.sent = << >>
           /\ last'.inner_fired = last'.arg)]_vars

C7_Witness ==
    /\ last.op = "fire"
    /\ ~is_main(last.client)
    /\ last.arg[1].name \in {"Objective", "Log"}
    /\ last.inner_fired = last.arg
    /\ last.sent = << >>

ConfigMatches(h) ==
    match_with(h.event.client_config, configuration(MainNode))

\* C8: the main takes the trusted path (observers deserialized, then
\* execute_and_process) exactly when client_config matches and observers_buf
\* is Some; otherwise it calls evaluate_input_with_observers without the
\* buffer. Both calls have send_events = FALSE.
C8_TrustedIffMatchAndObservers ==
    \A h \in MainHandled :
        IF ConfigMatches(h) /\ h.event.observers_buf # None
        THEN IF observers_from_bytes(h.event.observers_buf[1]).ok
             THEN h.calls =
                    << TrustedCall(h.event,
                         observers_from_bytes(h.event.observers_buf[1]).val,
                         FALSE) >>
             ELSE h.calls = << >> /\ h.result = "Err"
        ELSE h.calls = << ReexecuteCall(h.event, FALSE) >>

C8_Witness ==
    \E h \in MainHandled :
        /\ ConfigMatches(h)
        /\ h.event.observers_buf # None
        /\ Len(h.calls) = 1
        /\ h.calls[1].fn = "execute_and_process"
        /\ h.calls[1].send_events = FALSE

\* C9 as stated: with a mismatching client_config the main re-executes when
\* observers_buf is None and takes the trusted path when it is Some.
C9_MismatchTrustsObservers ==
    \A h \in MainHandled :
        ~ConfigMatches(h) =>
            /\ Len(h.calls) = 1
            /\ h.calls[1].fn = IF h.event.observers_buf = None
                               THEN "evaluate_input_with_observers"
                               ELSE "execute_and_process"

\* C9 amended: with a mismatching client_config the main re-executes the
\* input (evaluate_input_with_observers) whether observers_buf is None or
\* Some; the buffer is not deserialized.
C9_MismatchAlwaysReexecutes ==
    \A h \in MainHandled :
        ~ConfigMatches(h) => h.calls = << ReexecuteCall(h.event, FALSE) >>

C9_Witness ==
    \E h \in MainHandled :
        /\ ~ConfigMatches(h)
        /\ h.event.observers_buf # None
        /\ h.calls = << ReexecuteCall(h.event, FALSE) >>

\* C10: when the evaluation returns Some(corpus id) the main fires exactly
\* one NewTestcase into its inner manager, equal in every field to the event
\* received; when it returns None (or fails) nothing is fired.
C10_AcceptedIsRefiredUnchanged ==
    \A h \in MainHandled :
        h.inner = IF h.eval = "Some" THEN << h.event >> ELSE << >>

C10_Witness ==
    \E h \in MainHandled :
        /\ h.eval = "Some"
        /\ h.inner = << h.event >>
        /\ h.event.observers_buf # None
        /\ h.event.forward_id # None

\* The messages of a main evaluator's process call that carry its own id.
OwnMessages ==
    {i \in 1 .. Len(last.arg) : last.arg[i].client_id = client_id[MainNode]}

MainProcessed == last.op = "process" /\ is_main(last.client)

\* The messages the last process call took off the channel.
Consumed == SubSeq(last.arg, 1, Len(last.arg) - Len(toClients))

\* C11: the main evaluator's process skips every message that carries its own
\* centralized client id: the message is not decoded (a payload that is no
\* event raises no error), not handed to handle_in_main and not counted, so
\* every handled message comes from another client.
C11_OwnMessagesSkipped ==
    MainProcessed =>
        /\ \A i \in 1 .. Len(last.handled) :
              last.handled[i].client_id # client_id[MainNode]
        /\ last.result # "Panic" =>
              /\ last.skipped =
                    Cardinality({i \in 1 .. Len(Consumed) :
                        Consumed[i].client_id = client_id[MainNode]})
              /\ last.count + last.skipped
                    + (IF last.result = "Err" THEN 1 ELSE 0) = Len(Consumed)
        /\ (\A i \in 1 .. Len(last.arg) :
                /\ last.arg[i].client_id = client_id[MainNode]
                /\ last.arg[i].tag = LLMP_TAG_TO_MAIN)
              => /\ last.result = "Ok"
                 /\ last.count = 0
                 /\ last.handled = << >>
                 /\ toClients = << >>

\* Own messages only, one of them no event at all: skipped without an error.
C11_Witness ==
    /\ MainProcessed
    /\ Len(last.arg) = 2
    /\ OwnMessages = {1, 2}
    /\ \E i \in OwnMessages : ~Carried(last.arg[i]).ok
    /\ \E i \in OwnMessages : CarriesName(last.arg[i], "NewTestcase")
    /\ last.skipped = 2
    /\ last.count = 0
    /\ last.result = "Ok"

\* C12: process drains without blocking: with k messages readable, j of them
\* from the main itself, and no error, it leaves the channel empty and returns
\* k - j; with nothing readable it returns 0.
C12_DrainsAndCounts ==
    /\ (MainProcessed /\ last.result = "Ok") =>
          /\ toClients = << >>
          /\ last.count = Len(last.arg) - Cardinality(OwnMessages)
          /\ last.arg = << >> => last.count = 0

C12_Witness ==
    /\ MainProcessed
    /\ last.result = "Ok"
    /\ Len(last.arg) = 2
    /\ Cardinality(OwnMessages) = 1
    /\ last.count = 1
    /\ toClients = << >>

\* C13: handle_in_main returns an error for every event that is no
\* NewTestcase, without evaluating anything and without firing into the inner
\* manager; process returns that error at once and the messages queued behind
\* stay unread.
C13_OtherEventIsError ==
    MainProcessed =>
        \A i \in 1 .. Len(last.handled) :
            last.handled[i].event.name # "NewTestcase" =>
                /\ last.handled[i].calls = << >>
                /\ last.handled[i].inner = << >>
                /\ last.handled[i].result = "Err"
                /\ i = Len(last.handled)
                /\ last.result = "Err"
                /\ last.count = i - 1
                /\ toClients = SubSeq(last.arg, i + last.skipped + 1,
                                      Len(last.arg))

C13_Witness ==
    /\ MainProcessed
    /\ last.result = "Err"
    /\ Len(last.handled) = 1
    /\ last.handled[1].event.name = "Log"
    /\ Len(toClients) = 1
    /\ toClients[1] = last.arg[2]

\* C14: the main evaluator never sends on the centralized channel: its fire
\* hands every event, forward_id untouched, to inner.fire only, and the
\* evaluations of its process are made with send_events = false, so that its
\* page of the centralized channel stays empty.
C14_MainNeverSends ==
    /\ toBroker[MainNode] = << >>
    /\ (last.op = "fire" /\ is_main(last.client)) =>
          /\ last.sent = << >>
          /\ last.inner_fired = last.arg
    /\ MainProcessed =>
          /\ last.sent = << >>
          /\ \A i \in 1 .. Len(last.handled) :
                \A j \in 1 .. Len(last.handled[i].calls) :
                    last.handled[i].calls[j].send_events = FALSE

\* The main fired a test case that carries a forward_id.
C14_Witness ==
    /\ last.op = "fire"
    /\ is_main(last.client)
    /\ last.arg[1].name = "NewTestcase"
    /\ last.arg[1].forward_id = Some(2)
    /\ last.inner_fired = last.arg
    /\ toBroker[MainNode] = << >>

Restarted(ops) == last.op \in ops

\* C15: on_restart and await_restart_safe first wait until the centralized
\* transport client signals safe-to-unmap and only then call the inner
\* manager's on_restart / await_restart_safe: the inner call is never made
\* while the page is not yet safe to unmap.
C15_RestartWaitsForTransport ==
    /\ Restarted({"on_restart"}) =>
          /\ last.safe
          /\ last.calls = << "client.await_safe_to_unmap_blocking",
                             "inner.on_restart" >>
    /\ Restarted({"await_restart_safe"}) =>
          /\ last.safe
          /\ last.calls = << "client.await_safe_to_unmap_blocking",
                             "inner.await_restart_safe" >>

\* A secondary restarts after the broker has taken its test case off its page.
C15_Witness ==
    /\ Restarted({"on_restart"})
    /\ ~is_main(last.client)
    /\ last.result = "Ok"
    /\ \E i \in 1 .. Len(toClients) :
          toClients[i].client_id = client_id[last.client]

\* C16 as stated: send_exiting calls inner.send_exiting only once the pages
\* are safe to unmap.
C16_SendExitingWaits ==
    (Restarted({"send_exiting"}) /\ Len(last.calls) = 2) => last.safe

\* C16: send_exiting does not wait for safe-to-unmap: it first sends the
\* exiting notice through the sender of the centralized transport client,
\* returns the error without calling the inner manager when that fails, and
\* otherwise delegates to inner.send_exiting, whatever is still on its page.
C16_SendExitingNotifies ==
    Restarted({"send_exiting"}) =>
        /\ last.calls[1] = "client.sender.send_exiting"
        /\ \A i \in 1 .. Len(last.calls) :
              last.calls[i] # "client.await_safe_to_unmap_blocking"
        /\ \/ Len(last.calls) = 1 /\ last.result = "Err"
           \/ /\ Len(last.calls) = 2
              /\ last.calls[2] = "inner.send_exiting"

\* The inner send_exiting is reached while the sender's page is still unread.
C16_Witness ==
    /\ Restarted({"send_exiting"})
    /\ Len(last.calls) = 2
    /\ last.result = "Ok"
    /\ ~last.safe
    /\ toBroker[last.client] # << >>

\* C17: a forwarded message has the COMPRESSED flag exactly when its
\* serialized event reached the compression threshold and maybe_compress
\* returned Some; the broker and the main evaluator inflate exactly the
\* flagged payloads, so that below and above the threshold the event they
\* decode is the event the secondary serialized.
C17_CompressionRoundTrip ==
    /\ (last.op = "fire" /\ last.sent # << >>) =>
          LET m == last.sent[1]
              flagged == LLMP_FLAG_COMPRESSED \subseteq m.flags
          IN  /\ Carried(m).ok
              /\ LET event == Carried(m).val
                     serialized == to_allocvec(event)
                 IN  /\ flagged <=> maybe_compress(serialized) # None
                     /\ flagged <=> Len(serialized) >= CompressThreshold
                     /\ m.payload = IF flagged THEN compress(serialized)
                                    ELSE serialized
                     /\ IF event.name = "NewTestcase"
                        THEN [event EXCEPT !.forward_id =
                                 last.arg[1].forward_id] = last.arg[1]
                        ELSE event = last.arg[1]
    /\ (last.op = "broker" /\ last.arg[1].tag = LLMP_TAG_TO_MAIN) =>
          /\ Carried(last.arg[1]).ok
          /\ last.result = IF CarriesName(last.arg[1], "NewTestcase")
                           THEN "ForwardToClients" ELSE "Handled"
    /\ MainProcessed =>
          /\ last.result # "Panic"
          /\ Len(last.handled) = Len(Consumed)
          /\ \A i \in 1 .. Len(last.handled) :
                /\ Carried(last.arg[i]).ok
                /\ last.handled[i].event = Carried(last.arg[i]).val

\* The main evaluator handled a test case that travelled compressed.
C17_Witness ==
    /\ MainProcessed
    /\ Len(last.handled) >= 1
    /\ LLMP_FLAG_COMPRESSED \subseteq last.arg[1].flags
    /\ last.arg[1].payload # to_allocvec(last.handled[1].event)
    /\ last.handled[1].event.observers_buf # None
    /\ last.handled[1].calls # << >>

\* The test case of the given config and observers as secondary c forwards it.
Forwarded(c, cfg, obs) ==
    NewTestcase(<< 170 >>, cfg, 0, 1, obs, 1, 1, Some(mgr_id[c]))

OnPage(c, e) ==
    \E i \in 1 .. Len(toBroker[c]) :
        Carried(toBroker[c][i]).ok /\ Carried(toBroker[c][i]).val = e

\* The main evaluated e, sent by c, in its last process call: one call with
\* send_events = false, refired into the inner manager when it was accepted;
\* no call at all only when the trusted observers did not deserialize.
EvaluatedByMain(c, e) ==
    /\ MainProcessed
    /\ \E i \in 1 .. Len(last.handled) :
          LET h == last.handled[i]
          IN  /\ h.client_id = client_id[c]
              /\ h.event = e
              /\ \/ /\ h.calls = << >>
                    /\ h.result = "Err"
                    /\ e.observers_buf # None
                    /\ ~observers_from_bytes(e.observers_buf[1]).ok
                 \/ /\ Len(h.calls) = 1
                    /\ h.calls[1].input = e.input
                    /\ h.calls[1].send_events = FALSE
                    /\ h.eval = "Some" => h.inner = << e >>
                    /\ h.eval # "Some" => h.inner = << >>

\* A message moves from a page to the main's queue once and leaves the queue
\* when process reads it; a message read is evaluated at most once.
DeliveredOnce ==
    /\ (last'.op = "broker" /\ last'.result = "ForwardToClients") =>
          /\ toClients' = Append(toClients, last'.arg[1])
          /\ toBroker'[last'.client] = Tail(toBroker[last'.client])
    /\ (last'.op = "process" /\ is_main(last'.client)) =>
          /\ last'.arg = toClients
          /\ \E n \in 0 .. Len(toClients) :
                /\ toClients' = SubSeq(toClients, n + 1, Len(toClients))
                /\ Len(last'.handled) <= n
          /\ \A i \in 1 .. Len(last'.handled) :
                Len(last'.handled[i].calls) <= 1

\* C18: a NewTestcase that secondary S1 forwarded is, with the broker
\* dispatching and the main calling process, eventually evaluated by the main
\* exactly once with send_events = false and, when accepted, fired into the
\* main's inner manager with forward_id = Some(S1's inner id).
C18_TestcaseReachesMain ==
    /\ [][DeliveredOnce]_vars
    /\ \A cfg \in EventConfigs, obs \in ObserverBufs :
          OnPage("S1", Forwarded("S1", cfg, obs))
              ~> EvaluatedByMain("S1", Forwarded("S1", cfg, obs))

\* The accepted test case of S1 was fired into the main's inner manager.
C18_Witness ==
    /\ EvaluatedByMain("S1", Forwarded("S1", 2, Some(<< 1, 9 >>)))
    /\ last.handled[1].eval = "Some"
    /\ last.handled[1].inner[1].forward_id = Some(mgr_id["S1"])
    /\ last.result = "Ok"

\* The names of the calls the last traversal made for stage k, in order.
CallsOf(k) ==
    LET of_k == SelectSeq(traversal.trace, LAMBDA e : e.stage = k)
    IN  [i \in 1 .. Len(of_k) |-> of_k[i].fn]

\* The stages whose perform_restartable the last traversal called, in order.
Restartables ==
    LET calls == SelectSeq(traversal.trace,
                           LAMBDA e : e.fn = "perform_restartable")
    IN  [i \in 1 .. Len(calls) |-> calls[i].stage]

\* Self::LEN of the sub-tuple that stage k heads.
LenOf(k) == tuple_len - k + 1

\* The calls of a stage that is entered afresh and of one that is resumed.
IsFreshRun(fns) ==
    /\ Len(fns) >= 5
    /\ fns[1] = "set_current_stage_idx"
    /\ fns[2] = "perform_restartable"
    /\ fns[3] = "restart_progress_should_run"
    /\ fns[Len(fns) - 1] = "clear_restart_progress"
    /\ fns[Len(fns)] = "clear_stage"

IsResumedRun(fns) ==
    /\ Len(fns) >= 4
    /\ fns[1] = "perform_restartable"
    /\ fns[2] = "restart_progress_should_run"
    /\ fns[Len(fns) - 1] = "clear_restart_progress"
    /\ fns[Len(fns)] = "clear_stage"
    /\ \A i \in 1 .. Len(fns) : fns[i] # "set_current_stage_idx"

TraceInTupleOrder ==
    \A i, j \in 1 .. Len(traversal.trace) :
        i <= j => traversal.trace[i].stage <= traversal.trace[j].stage

\* C19: for a tuple of any length, a perform_all that starts with
\* current_stage_idx = None and in which no stage returns an error calls
\* perform_restartable of every stage exactly once, in tuple order, and ends
\* with current_stage_idx = None.
C19_CleanTraversal ==
    (traversal.result # "-" /\ traversal.start = None /\ traversal.clean) =>
        /\ traversal.result = "Ok"
        /\ Restartables = [k \in 1 .. tuple_len |-> k]
        /\ \A k \in 1 .. tuple_len : IsFreshRun(CallsOf(k))
        /\ TraceInTupleOrder
        /\ current_stage_idx = None

C19_Witness ==
    /\ tuple_len = 3
    /\ traversal.start = None
    /\ traversal.clean
    /\ traversal.result = "Ok"
    /\ Restartables = << 1, 2, 3 >>
    /\ \E i \in 1 .. Len(traversal.trace) :
          traversal.trace[i].fn = "perform"
    /\ current_stage_idx = None

\* C20: a perform_all that starts with a persisted current_stage_idx =
\* Some(i) skips every stage whose LEN is greater than i completely, runs the
\* stage with LEN = i via perform_restartable without setting the index again
\* and clears the index after it, and runs every later stage as in a fresh
\* traversal (set, run, clear); the index ends None.
C20_ResumeTraversal ==
    (/\ traversal.result # "-"
     /\ traversal.start # None
     /\ traversal.start[1] \in 1 .. tuple_len
     /\ traversal.clean) =>
        /\ traversal.result = "Ok"
        /\ \A k \in 1 .. tuple_len :
              /\ LenOf(k) > traversal.start[1] => CallsOf(k) = << >>
              /\ LenOf(k) = traversal.start[1] => IsResumedRun(CallsOf(k))
              /\ LenOf(k) < traversal.start[1] => IsFreshRun(CallsOf(k))
        /\ \A i \in 1 .. Len(traversal.trace) :
              LET e == traversal.trace[i]
              IN  e.idx = IF e.fn = "set_current_stage_idx"
                          THEN None ELSE Some(LenOf(e.stage))
        /\ TraceInTupleOrder
        /\ current_stage_idx = None

\* (A, B, C) resumed with Some(2): A is skipped, B and C run.
C20_Witness ==
    /\ tuple_len = 3
    /\ traversal.start = Some(2)
    /\ traversal.clean
    /\ traversal.result = "Ok"
    /\ CallsOf(1) = << >>
    /\ Restartables = << 2, 3 >>
    /\ current_stage_idx = None

\* The last call the traversal made.
LastCall == traversal.trace[Len(traversal.trace)]

\* C21: in a tuple traversal the index is Some(LEN) of the sub-tuple a stage
\* heads during every call of that stage (from set_current_stage_idx to
\* clear_stage), and None where set_current_stage_idx is called (between two
\* stages) and after the last stage; when a stage returns an error the index
\* stays Some(LEN of that stage) and clear_stage is not called for it.
C21_IndexBracketsStage ==
    traversal.result # "-" =>
        /\ \A i \in 1 .. Len(traversal.trace) :
              LET e == traversal.trace[i]
              IN  /\ e.fn = "set_current_stage_idx" => e.idx = None
                  /\ e.fn # "set_current_stage_idx" =>
                        e.idx = Some(LenOf(e.stage))
                  /\ e.fn = "clear_stage" =>
                        \/ i = Len(traversal.trace) /\ current_stage_idx = None
                        \/ /\ i < Len(traversal.trace)
                           /\ traversal.trace[i + 1].fn = "set_current_stage_idx"
        /\ traversal.result = "Ok" => current_stage_idx = None
        /\ traversal.result \in {"Err", "Crash"} =>
              /\ traversal.trace # << >>
              /\ current_stage_idx = Some(LenOf(LastCall.stage))
              /\ \A i \in 1 .. Len(traversal.trace) :
                    traversal.trace[i].stage = LastCall.stage =>
                        traversal.trace[i].fn # "clear_stage"

\* The second of three stages fails: the index stays Some(2).
C21_Witness ==
    /\ tuple_len = 3
    /\ traversal.start = None
    /\ traversal.result = "Err"
    /\ LastCall.stage = 2
    /\ LastCall.fn = "perform"
    /\ current_stage_idx = Some(2)

\* The calls of stage k in a trace, with what they returned.
StageCalls(trace, k) == SelectSeq(trace, LAMBDA e : e.stage = k)

\* How often perform_restartable of stage k was called in a trace.
TimesRun(trace, k) ==
    Len(SelectSeq(trace, LAMBDA e : e.stage = k /\ e.fn = "perform_restartable"))

\* The traversal after a crash in stage k: nothing before k, k entered again
\* through restart_progress_should_run, every later stage at most once and,
\* when this traversal returns Ok, exactly once.
ResumesAt(k, t) ==
    LET of_k == StageCalls(t.trace, k)
    IN  /\ \A i \in 1 .. Len(t.trace) : t.trace[i].stage >= k
        /\ Len(of_k) >= 2
        /\ t.trace[1] = of_k[1]
        /\ of_k[1].fn = "perform_restartable"
        /\ of_k[2].fn = "restart_progress_should_run"
        /\ TimesRun(t.trace, k) = 1
        /\ (\E i \in 1 .. Len(of_k) : of_k[i].fn = "perform")
              <=> of_k[2].ret = "true"
        /\ \A j \in k + 1 .. tuple_len : TimesRun(t.trace, j) <= 1
        /\ t.result = "Ok" =>
              \A j \in k + 1 .. tuple_len : TimesRun(t.trace, j) = 1

\* C22: when the process crashed while the k-th stage was being performed
\* and restarts with the state as persisted, the next perform_all runs no
\* stage before the k-th, enters the k-th again (restart_progress_should_run
\* is called again and decides whether perform runs) and then runs every
\* later stage once; this holds after every crash, also of a resumed run.
C22_CrashResume ==
    [][traversal.result = "Crash" =>
          ResumesAt(traversal.trace[Len(traversal.trace)].stage, traversal')]_vars

\* Crashed in the second of three stages, resumed: stages 2 and 3 ran, the
\* resumed stage decided not to perform again.
C22_Witness ==
    /\ tuple_len = 3
    /\ traversal.after = "Crash"
    /\ traversal.start = Some(2)
    /\ traversal.result = "Ok"
    /\ Restartables = << 2, 3 >>
    /\ CallsOf(2) = << "perform_restartable", "restart_progress_should_run",
                       "clear_restart_progress", "clear_stage" >>

\* What perform_restartable of stage k called in the last traversal: its own
\* entry first, then the stage's methods.
RestartableCalls(k) ==
    SelectSeq(traversal.trace,
              LAMBDA e : e.stage = k /\ e.fn \notin {"set_current_stage_idx",
                                                      "clear_stage"})

\* C23: perform_restartable calls restart_progress_should_run first, perform
\* only if that returned true, and clear_restart_progress last; the clear is
\* called also when should_run returned false and is not called when
\* should_run or perform returned an error.
C23_RestartableOrder ==
    \A k \in 1 .. tuple_len :
        LET c == RestartableCalls(k)
            performs == {i \in 1 .. Len(c) : c[i].fn = "perform"}
            clears == {i \in 1 .. Len(c) : c[i].fn = "clear_restart_progress"}
        IN  c # << >> =>
              /\ Len(c) >= 2
              /\ c[1].fn = "perform_restartable"
              /\ c[2].fn = "restart_progress_should_run"
              /\ \A i \in 3 .. Len(c) :
                    c[i].fn \in {"perform", "clear_restart_progress"}
              /\ performs = IF c[2].ret = "true" THEN {3} ELSE {}
              /\ clears = IF \/ c[2].ret = "false"
                             \/ c[2].ret = "true" /\ c[3].ret = "Ok"
                          THEN {Len(c)} ELSE {}
              /\ clears # {} => Len(c) = IF c[2].ret = "true" THEN 4 ELSE 3
              /\ c[1].ret = c[Len(c)].ret

\* The first stage is skipped and still cleared, the second fails in perform
\* and is not cleared.
C23_Witness ==
    /\ tuple_len = 2
    /\ Len(RestartableCalls(1)) = 3
    /\ RestartableCalls(1)[2].ret = "false"
    /\ RestartableCalls(1)[3].fn = "clear_restart_progress"
    /\ Len(RestartableCalls(2)) = 3
    /\ RestartableCalls(2)[3].fn = "perform"
    /\ RestartableCalls(2)[3].ret = "Err"
    /\ traversal.result = "Err"

\* C24: for a stage that uses RetryRestartHelper (ClosureStage): after
\* perform_restartable returned Ok, tries_remaining is None; after
\* restart_progress_should_run returned Ok and before clear_restart_progress
\* is called, tries_remaining is Some.
C24_TriesBracketAttempt ==
    /\ (retry_last.op = "perform_restartable" /\ retry_last.ret = "Ok") =>
          retry_meta # None /\ TriesOf(retry_meta) = None
    /\ retry_last.should_run \in {"true", "false"} =>
          retry_last.mid # None /\ TriesOf(retry_last.mid) # None
    /\ (/\ retry_last.op = "restart_progress_should_run"
        /\ retry_last.ret \in {"true", "false"}) =>
          retry_meta = retry_last.mid
    /\ (/\ retry_last.op = "perform_restartable"
        /\ retry_last.should_run = "true"
        /\ retry_last.ret # "Ok") =>
          retry_meta = retry_last.mid

\* A closure stage ran to its end at the first try.
C24_Witness ==
    /\ retry_last.op = "perform_restartable"
    /\ retry_last.should_run = "true"
    /\ retry_last.ret = "Ok"
    /\ TriesOf(retry_last.mid) = Some(ClosureMaxRetries)
    /\ TriesOf(retry_meta) = None

\* C25: once a corpus id is in skipped, no later
\* restart_progress_should_run of the stage with that id current returns
\* true, whatever clears, other ids and max_retries values came in between;
\* skipped never loses an element.
C25_SkippedIsFinal ==
    [][/\ SkippedOf(retry_meta) \subseteq SkippedOf(retry_meta')
       /\ (/\ current_corpus_id # None
           /\ current_corpus_id[1] \in SkippedOf(retry_meta)
           /\ retry_last'.op \in {"restart_progress_should_run",
                                  "perform_restartable"}
           /\ retry_last'.corpus = current_corpus_id) =>
              retry_last'.should_run \in {"false", "IllegalState"}]_vars

\* Both ids were skipped; after a clear a call for one of them, with tries
\* left, returns false.
C25_Witness ==
    /\ retry_last.op = "restart_progress_should_run"
    /\ retry_last.corpus = Some(1)
    /\ retry_last.ret = "false"
    /\ SkippedOf(retry_meta) = {1, 2}
    /\ TriesOf(retry_meta) = Some(2)

\* C26: with max_retries = n >= 1 and an id that is not skipped, starting
\* from cleared or absent progress, consecutive calls of
\* restart_progress_should_run without a clear in between return true for
\* the first n calls and false for call n + 1, after which the id is in
\* skipped (n = 2: true, true, false).
C26_TriesThenSkip ==
    [][(/\ retry_streak'.count = retry_streak.count + 1
        /\ retry_streak'.uniform
        /\ retry_streak'.max_retries >= 1) =>
           LET n == retry_streak'.max_retries
               k == retry_streak'.count
               id == retry_streak'.corpus[1]
           IN  /\ k <= n =>
                     /\ retry_last'.should_run = "true"
                     /\ id \notin SkippedOf(retry_meta')
               /\ k = n + 1 =>
                     /\ retry_last'.should_run = "false"
                     /\ id \in SkippedOf(retry_meta')]_vars

\* The third call with max_retries = 2: false, and the id is skipped.
C26_Witness ==
    /\ retry_streak.uniform
    /\ retry_streak.max_retries = 2
    /\ retry_streak.count = 3
    /\ retry_streak.corpus = Some(1)
    /\ retry_last.op = "restart_progress_should_run"
    /\ retry_last.ret = "false"
    /\ SkippedOf(retry_meta) = {1}

\* A step in which restart_progress_should_run is called directly with a
\* corpus id current.
DirectCall ==
    /\ retry_last'.tick # retry_last.tick
    /\ retry_last'.op = "restart_progress_should_run"
    /\ current_corpus_id # None

\* C27 as stated: a call for an id already in skipped returns false at once,
\* without decrementing (tries_remaining unchanged); so a fourth consecutive
\* call after true, true, false with max_retries = 2 still returns false.
C27_SkippedReturnsAtOnce ==
    [][(DirectCall /\ current_corpus_id[1] \in SkippedOf(retry_meta)) =>
          /\ retry_last'.ret = "false"
          /\ TriesOf(retry_meta') = TriesOf(retry_meta)]_vars

\* C27: a call for an id already in skipped never returns true but is counted
\* like any other call: tries_remaining is decremented first (from
\* max_retries + 1 when the progress is cleared) and false is returned; when
\* tries_remaining is Some(0) the call returns IllegalState and changes
\* nothing, so a fourth consecutive call after true, true, false with
\* max_retries = 2 returns IllegalState.
C27_SkippedStillCounts ==
    [][/\ (DirectCall /\ current_corpus_id[1] \in SkippedOf(retry_meta)) =>
            LET tries == IF TriesOf(retry_meta) = None
                         THEN retry_last'.max_retries + 1
                         ELSE TriesOf(retry_meta)[1]
            IN  IF tries = 0
                THEN /\ retry_last'.ret = "IllegalState"
                     /\ retry_meta' = retry_meta
                ELSE /\ retry_last'.ret = "false"
                     /\ TriesOf(retry_meta') = Some(tries - 1)
                     /\ SkippedOf(retry_meta) \subseteq SkippedOf(retry_meta')
       /\ (/\ DirectCall
           /\ retry_streak'.uniform
           /\ retry_streak'.count = retry_streak'.max_retries + 2) =>
              retry_last'.ret = "IllegalState"]_vars

\* The fourth consecutive call with max_retries = 2.
C27_Witness ==
    /\ retry_streak.uniform
    /\ retry_streak.max_retries = 2
    /\ retry_streak.count = 4
    /\ retry_last.op = "restart_progress_should_run"
    /\ retry_last.corpus = Some(1)
    /\ retry_last.ret = "IllegalState"
    /\ 1 \in SkippedOf(retry_meta)
    /\ TriesOf(retry_meta) = Some(0)

\* C28: with max_retries = 0, starting from cleared or absent progress with
\* an id that is not skipped, the first restart_progress_should_run returns
\* true, every later call for that id returns false, and the id is in
\* skipped.
C28_ZeroRetriesRunsOnce ==
    [][(/\ DirectCall
        /\ retry_streak'.uniform
        /\ retry_streak'.max_retries = 0) =>
           /\ retry_streak'.count = 1 => retry_last'.ret = "true"
           /\ retry_streak'.count > 1 =>
                 /\ retry_last'.ret = "false"
                 /\ retry_streak'.corpus[1] \in SkippedOf(retry_meta')]_vars

\* C29: normal use never skips: when every call passes the same
\* max_retries = n >= 1 and no more than n consecutive calls are made before
\* clear_restart_progress, every call returns true, however often this is
\* repeated, and no id enters skipped.
C29_NormalUseNeverSkips ==
    [][(/\ retry_last'.tick # retry_last.tick
        /\ retry_last'.op \in {"restart_progress_should_run",
                               "perform_restartable"}
        /\ current_corpus_id # None
        /\ retry_streak'.normal) =>
           /\ retry_last'.should_run = "true"
           /\ SkippedOf(retry_meta') = {}]_vars

\* The second call of a round of two with max_retries = 2.
C29_Witness ==
    /\ retry_streak.normal
    /\ retry_streak.normal_n = Some(2)
    /\ retry_streak.count = 2
    /\ retry_streak.corpus = Some(2)
    /\ retry_last.op = "restart_progress_should_run"
    /\ retry_last.ret = "true"
    /\ SkippedOf(retry_meta) = {}

\* C30: restart_progress_should_run called while tries_remaining is Some(0)
\* returns IllegalState and leaves tries_remaining and skipped unchanged.
C30_NoTriesLeftIsError ==
    [][(/\ retry_last'.tick # retry_last.tick
        /\ retry_last'.op \in {"restart_progress_should_run",
                               "perform_restartable"}
        /\ current_corpus_id # None
        /\ TriesOf(retry_meta) = Some(0)) =>
           /\ retry_last'.should_run = "IllegalState"
           /\ TriesOf(retry_meta') = Some(0)
           /\ SkippedOf(retry_meta') = SkippedOf(retry_meta)
           /\ retry_meta' = retry_meta]_vars

\* A call for an id that is not skipped, made after another id used up the
\* tries.
C30_Witness ==
    /\ retry_last.op = "restart_progress_should_run"
    /\ retry_last.ret = "IllegalState"
    /\ retry_last.corpus = Some(2)
    /\ TriesOf(retry_meta) = Some(0)
    /\ SkippedOf(retry_meta) = {1}

\* C31: the retry limit is per corpus entry: a corpus id is inserted into
\* skipped only after restart_progress_should_run has been called
\* max_retries + 1 times for that same id since the last
\* clear_restart_progress; calls made while another id was current do not
\* count against it (max_retries: the value the streak began with).
C31_LimitPerCorpusEntry ==
    [][DirectCall =>
          \A i \in SkippedOf(retry_meta') \ SkippedOf(retry_meta) :
              retry_streak'.calls[i] >= retry_streak'.max_retries + 1]_vars

\* A step in which op is called on a helper.
ExecCall(op) ==
    /\ exec_last'.tick # exec_last.tick
    /\ exec_last'.op = op

\* C32: ExecutionCountRestartHelper::restart_progress_should_run is an
\* idempotent initializer: the first call after a clear stores the current
\* state.executions as started_at_execs; every further call before
\* clear_restart_progress, also by a fresh helper after a restart and with
\* executions advanced, leaves the stored value unchanged; every call
\* returns true.
C32_IdempotentInitializer ==
    [][/\ ExecCall("restart_progress_should_run") =>
            LET entered == exec_hist.open[exec_last'.helper]
            IN  /\ exec_last'.ret = "true"
                /\ entered = None => exec_meta' = Some(executions)
                /\ entered # None =>
                      exec_meta' = exec_meta /\ exec_meta' = entered
       /\ (~ExecCall("clear_restart_progress") /\ exec_meta # None) =>
            exec_meta' = exec_meta]_vars

\* A fresh helper after a restart, two executions after the stage was first
\* entered: the stored count is still that of the first entry.
C32_Witness ==
    /\ exec_last.op = "restart_progress_should_run"
    /\ exec_last.fresh
    /\ executions = 2
    /\ exec_meta = Some(0)
    /\ exec_cache["A"] = Some(0)
    /\ exec_hist.open["A"] = Some(0)

\* The helper's cache, when filled, is the persisted started_at_execs.
CacheIsPersisted ==
    exec_cache["A"] # None => exec_cache["A"] = exec_meta

\* C33: execs_since_progress_start returns state.executions minus the
\* execution count recorded at the stage's first entry, also when a fresh
\* helper (empty cache) calls it after a restart and the value comes from
\* the persisted metadata; the cached value always equals the persisted
\* started_at_execs; with neither cache nor metadata the call returns
\* IllegalState.
C33_ExecsSinceStart ==
    /\ []CacheIsPersisted
    /\ [][ExecCall("execs_since_progress_start") =>
             LET entered == exec_hist.open[exec_last'.helper]
             IN  /\ entered # None =>
                       /\ exec_last'.ret = "Ok"
                       /\ exec_last'.val = executions - entered[1]
                 /\ (exec_cache[exec_last'.helper] = None
                        /\ exec_meta = None) =>
                       exec_last'.ret = "IllegalState"]_vars

\* Entered at one execution, restarted, asked at three: two since the start.
C33_Witness ==
    /\ exec_last.op = "execs_since_progress_start"
    /\ exec_last.fresh
    /\ exec_last.ret = "Ok"
    /\ exec_last.val = 2
    /\ executions = 3
    /\ exec_meta = Some(1)
    /\ exec_cache["A"] = Some(1)

\* C34: ExecutionCountRestartHelper::clear_restart_progress removes the
\* metadata and empties the helper's cache, so that the next
\* restart_progress_should_run records a fresh execution count; when the
\* helpers are used un-nested (every restart_progress_should_run is followed
\* by the same helper's clear before another helper's
\* restart_progress_should_run) the assertion that the metadata is present
\* at clear never fails, while with two helpers nested on one state the
\* outer clear, coming after the inner one, finds the metadata gone.
C34_ClearRemovesMetadata ==
    [][/\ ExecCall("clear_restart_progress") =>
            LET h == exec_last'.helper
            IN  /\ exec_meta' = None
                /\ exec_cache'[h] = None
                /\ (/\ ~exec_hist'.nested
                    /\ ~exec_hist'.stray) => exec_last'.assertion = "holds"
                /\ (/\ exec_hist.open[h] # None
                    /\ exec_last.op = "clear_restart_progress"
                    /\ exec_last.helper # h) =>
                        exec_last'.assertion = "fails"
       /\ (/\ ExecCall("restart_progress_should_run")
           /\ exec_last.op = "clear_restart_progress") =>
              exec_meta' = Some(executions)]_vars

\* A entered, B entered inside it, B cleared, A cleared: the assertion of
\* the outer clear fails.
C34_Witness ==
    /\ exec_last.op = "clear_restart_progress"
    /\ exec_last.helper = "A"
    /\ exec_last.assertion = "fails"
    /\ exec_hist.nested
    /\ ~exec_hist.stray
    /\ exec_meta = None

\* The last perform_all ended in the IllegalState of the empty tuple: no
\* stage was called.
EndOfTupleError == traversal.result = "Err" /\ traversal.trace = << >>

\* C35: in every state reached from current_stage_idx = None by perform_all
\* runs that crash or fail and are restarted on the persisted state, the
\* index is None or Some(i) with 1 <= i <= L, so neither the unreachable
\* branch (index greater than the tuple length) nor the IllegalState at the
\* end of the tuple occurs; a persisted Some(0) makes perform_all skip every
\* stage and return that IllegalState.
C35_IndexInRange ==
    /\ traversal.origin = None =>
          /\ \/ current_stage_idx = None
             \/ current_stage_idx[1] \in 1 .. tuple_len
          /\ traversal.result # "Panic"
          /\ ~EndOfTupleError
    /\ (traversal.result # "-" /\ traversal.start = Some(0)) =>
          /\ EndOfTupleError
          /\ current_stage_idx = Some(0)

\* Three stages, started on a state persisted with Some(0).
C35_Witness ==
    /\ tuple_len = 3
    /\ traversal.origin = Some(0)
    /\ traversal.start = Some(0)
    /\ EndOfTupleError
    /\ current_stage_idx = Some(0)

ProcessStep == last' # last /\ last'.op = "process"

\* C37: is_main splits process: a secondary's process only delegates to
\* inner.process and never takes a message off the centralized channel; the
\* main evaluator's process only drains the centralized channel and never
\* calls inner.process.
C37_IsMainSplitsProcess ==
    /\ [](last.op = "process" =>
             IF is_main(last.client)
             THEN ~last.inner_process
             ELSE /\ last.inner_process
                  /\ last.handled = << >>
                  /\ last.count = 0
                  /\ last.skipped = 0)
    /\ [][ProcessStep =>
             IF is_main(last'.client)
             THEN \E n \in 0 .. Len(toClients) :
                     toClients' = SubSeq(toClients, n + 1, Len(toClients))
             ELSE toClients' = toClients]_vars

\* A secondary processed while a message was waiting on the centralized
\* channel: the message is still there.
C37_Witness ==
    /\ last.op = "process"
    /\ last.client = "S1"
    /\ last.inner_process
    /\ toClients # << >>

\* A message the main evaluator can take: tagged for the main, a test case.
TestcaseForMain(m) ==
    m.tag = LLMP_TAG_TO_MAIN /\ CarriesName(m, "NewTestcase")

\* C38: when every client of the centralized broker is a
\* CentralizedEventManager (secondaries firing any events in any order, one
\* main) and the broker applies its dispatch policy, every message the main
\* evaluator takes from the centralized channel has tag TAG_TO_MAIN and
\* decodes to a NewTestcase: neither the tag assertion of process nor the
\* error of handle_in_main for any other event is reached.
C38_MainSeesOnlyTestcases ==
    /\ \A i \in 1 .. Len(toClients) : TestcaseForMain(toClients[i])
    /\ MainProcessed =>
          /\ last.result # "Panic"
          /\ \A i \in 1 .. Len(last.arg) : TestcaseForMain(last.arg[i])
          /\ \A i \in 1 .. Len(last.handled) :
                last.handled[i].event.name = "NewTestcase"

\* The main took a message off the channel: a test case of a secondary,
\* tagged for the main.
C38_Witness ==
    /\ MainProcessed
    /\ last.result = "Ok"
    /\ last.count = 1
    /\ Len(last.arg) = 1
    /\ TestcaseForMain(last.arg[1])
    /\ last.handled[1].event.name = "NewTestcase"
    /\ toClients = << >>

\* The calls of stages in a trace, without the index they saw and without
\* the calls on the index.
StageCallsOnly(trace) ==
    LET calls == SelectSeq(trace,
                           LAMBDA e : e.fn \notin {"set_current_stage_idx",
                                                   "clear_stage"})
    IN  [i \in 1 .. Len(calls) |->
            << calls[i].fn, calls[i].stage, calls[i].ret >>]

\* C39: perform_all of a Vec of boxed stages neither reads nor writes
\* current_stage_idx: it calls perform_restartable of every stage in order
\* from the first, whatever the persisted index is, stops at the first
\* error and leaves the index unchanged; started with None and without
\* errors it makes the same stage calls as the tuple traversal of the same
\* stages.
C39_VecIgnoresIndex ==
    traversal.kind = "vec" =>
        LET n == Len(Restartables)
        IN  /\ current_stage_idx = traversal.start
            /\ \A i \in 1 .. Len(traversal.trace) :
                  /\ traversal.trace[i].idx = traversal.start
                  /\ traversal.trace[i].fn \notin {"set_current_stage_idx",
                                                    "clear_stage"}
            /\ Restartables = [k \in 1 .. n |-> k]
            /\ \A k \in 1 .. n :
                  RestartableCalls(k)[1].ret = "Ok" <=>
                      (k < n \/ traversal.result = "Ok")
            /\ traversal.result = "Ok" => n = tuple_len
            /\ n > 0 => traversal.result = RestartableCalls(n)[1].ret
            /\ (traversal.start = None /\ traversal.clean) =>
                  StageCallsOnly(traversal.trace)
                      = StageCallsOnly(traversal.twin)

\* A Vec of three stages run on a state persisted with Some(2): all three
\* stages run, the index is still Some(2); the tuple would have skipped the
\* first.
C39_Witness ==
    /\ traversal.kind = "vec"
    /\ tuple_len = 3
    /\ traversal.start = Some(2)
    /\ traversal.result = "Ok"
    /\ Restartables = << 1, 2, 3 >>
    /\ current_stage_idx = Some(2)
    /\ StageCallsOnly(traversal.trace) # StageCallsOnly(traversal.twin)

====
